---------------------------- MODULE Spec2Model ----------------------------
(***************************************************************************)
(* Verification model of the polyspectrum estimators of FML                *)
(* (FML/ComputePowerSpectra/ComputePowerSpectrum.h), of the Fourier space  *)
(* smoothing filters and of the record framing of the Gadget reader and    *)
(* writer (GadgetUtils.cpp).                                               *)
(*                                                                         *)
(* Each estimator is a state machine of its own (one specification per     *)
(* routine); the variables of the routines that a specification does not   *)
(* run stay at their idle values.                                          *)
(*                                                                         *)
(* Numbers.  Real quantities are exact rationals <<num, den>> (den > 0,    *)
(* reduced), so that "== 0.0", "> 0.0" and quotients are decided as in     *)
(* exact arithmetic.  Bin centres are integers; the shell edges and shell  *)
(* midpoints, which the code obtains by halving twice, are kept in units   *)
(* of 1/4.  The factor (2 pi)^-N of the polyspectrum normalisation is a    *)
(* positive unit that is carried implicitly.                               *)
(***************************************************************************)
EXTENDS Integers, Sequences, FiniteSets, TLC

VARIABLES
    \* ---- compute_bispectrum / compute_polyspectrum (grid versions)
    routine,      \* "bispectrum" | "polyspectrum" | "idle"
    order,        \* template parameter ORDER (3 for the bispectrum)
    nbins,        \* polyofk.n / bofk.n
    kcentre,      \* polyofk.k / bofk.k : bin centres, [0..nbins-1 -> Nat]
    F_k,          \* real-space shell fields   [bin -> [cell -> Int]]
    N_k,          \* real-space shell counts   [bin -> [cell -> Int]]
    pofk_bin,     \* in-shell power            [bin -> Nat]
    pc,           \* position in the routine
    idx,          \* loop variable i of the tuple loop / fill loop
    P123,         \* P123 / B123 : [0..nbins_tot-1 -> rational]
    N123,         \* N123        : [0..nbins_tot-1 -> rational]
    evaluated,    \* flat indices for which the real-space sums were computed
    skipped,      \* flat indices zeroed by the closability test
    result,       \* what was copied to the binning object on return
    \* ---- the Fourier grid handed to an estimator, and its slab decomposition
    grid_status,  \* "REAL" | "FOURIER"
    Nmesh,        \* cells per dimension
    Ndim,         \* template parameter N
    NTasks,       \* number of workers
    Local_nx,     \* [rank -> number of owned x-planes]
    field,        \* which Fourier field the grid is given (see FieldCell)
    fgrid,        \* [rank -> [local Fourier index -> complex amplitude]]
    \* ---- bin_up_power_spectrum(fourier_grid, pofk), one pofk object per worker
    bn, bkmin, bkmax,   \* pofk.n, pofk.kmin, pofk.kmax
    pofk,         \* [rank -> binning object: pofk, count and kbin per bin]
    wpc,          \* [rank -> position of the worker in the routine]
    ind,          \* [rank -> loop variable ind]
    wsum,         \* [rank -> sum of the weights the worker has handed to add_to_bin]
    oplog,        \* [rank -> the calls the worker has made on the grid, in order]
    NumPartTotal, \* total number of particles (compute_power_spectrum)
    \* ---- the particles of one worker (compute_power_spectrum_interlacing)
    NumPart,      \* number of local particles
    pos,          \* [particle -> [axis -> coordinate]], see Ticks
    pos0,         \* the positions the routine was called with
    scattered,    \* the positions each particles_to_grid call has read, in order
    ipc,          \* position of the worker in the routine
    \* ---- smoothing_filter_fourier_space(fourier_grid, scale, method)
    smoothing_method,  \* the selector string
    smoothing_scale2,  \* (2 pi * smoothing_scale)^2, a rational
    \* ---- compute_power_spectrum_multipoles(fourier_grid, Pell, los)
    los,          \* line_of_sight_direction, a sequence of integers
    nell,         \* Pell.size()
    Pell,         \* [rank -> [ell -> binning object]], moments as Num values
    \* compute_power_spectrum_multipoles(Ngrid, part, velocity_to_displacement, ...)
    vel,          \* [particle -> [axis -> velocity]], in ticks per unit factor
    velocity_to_displacement,
    dir,          \* the axis the particles are put into redshift space along
    \* compute_bispectrum / compute_polyspectrum: the loop over the shells
    acc,          \* [rank -> the worker's kmean, pofk_bin[i] and nk of the shell]
    kmean_bin,    \* [shell -> mean |k| of the shell]
    \* compute_bispectrum / compute_polyspectrum: every worker's own run
    cpos,         \* [rank -> where the worker stands: loop, index, call, waiting]
    clog,         \* [rank -> the collective calls the worker has entered, in order]
    \* GadgetReader / GadgetWriter on one file
    gfile,        \* the bytes of the file
    gpos,         \* read position of the ifstream
    gopen,        \* fp.is_open()
    endian_swap,  \* GadgetReader::endian_swap
    header_is_read,
    header_copied,\* number of bytes fp.read has stored from (char*)&header on
    gbuffer,      \* the buffer the last read_section returned
    gpc,          \* "write" | "read" | "failed"
    gsent,        \* the payloads write_section has written, in order
    gcall         \* the last call: its arguments and how it ended

polyVars == <<routine, order, nbins, kcentre, F_k, N_k, pofk_bin, pc, idx,
              P123, N123, evaluated, skipped, result>>

gridVars == <<grid_status, Nmesh, Ndim, NTasks, Local_nx, field, fgrid>>
binVars == <<bn, bkmin, bkmax, pofk, wpc, ind, wsum, oplog, NumPartTotal>>

partVars == <<NumPart, pos, pos0, scattered, ipc>>

smoothVars == <<smoothing_method, smoothing_scale2>>

multVars == <<los, nell, Pell>>

rsdVars == <<vel, velocity_to_displacement, dir>>

shellVars == <<acc, kmean_bin>>

collVars == <<cpos, clog>>

gadVars == <<gfile, gpos, gopen, endian_swap, header_is_read, header_copied,
             gbuffer, gpc, gsent, gcall>>

extVars == <<collVars, gadVars>>

vars == <<polyVars, gridVars, binVars, partVars, smoothVars, multVars, rsdVars,
          shellVars, extVars>>

-----------------------------------------------------------------------------
(* Bounds of the model *)

MaxBins == 3
MaxMesh == 4
MaxTasks == 2
MaxPofkBins == 2

-----------------------------------------------------------------------------
(* Exact rational arithmetic *)

Abs(x) == IF x < 0 THEN -x ELSE x

RECURSIVE Gcd(_, _)
Gcd(a, b) == IF b = 0 THEN a ELSE Gcd(b, a % b)

\* n/d reduced, with a positive denominator (d # 0)
Frac(n, d) ==
    LET g == Gcd(Abs(n), Abs(d))
        s == IF d < 0 THEN -1 ELSE 1
    IN  <<(s * n) \div g, (s * d) \div g>>

Zero == <<0, 1>>
RatOfInt(n) == <<n, 1>>
RatIsZero(q) == q[1] = 0
RatIsPos(q) == q[1] > 0
RatAdd(p, q) == Frac(p[1] * q[2] + q[1] * p[2], p[2] * q[2])
RatSub(p, q) == Frac(p[1] * q[2] - q[1] * p[2], p[2] * q[2])
RatMul(p, q) == Frac(p[1] * q[1], p[2] * q[2])
RatDiv(p, q) == Frac(p[1] * q[2], p[2] * q[1])

RECURSIVE Power(_, _)
Power(b, e) == IF e = 0 THEN 1 ELSE b * Power(b, e - 1)

RECURSIVE SumOver(_, _)
\* sum of f[x] over the finite set S
SumOver(f, S) ==
    IF S = {} THEN 0
    ELSE LET x == CHOOSE y \in S : TRUE IN f[x] + SumOver(f, S \ {x})

RECURSIVE ProdOver(_, _)
ProdOver(f, S) ==
    IF S = {} THEN 1
    ELSE LET x == CHOOSE y \in S : TRUE IN f[x] * ProdOver(f, S \ {x})

-----------------------------------------------------------------------------
(***************************************************************************)
(* compute_bispectrum(grid, bofk) and compute_polyspectrum(grid, polyofk)  *)
(*                                                                         *)
(* The model starts where the shell loop has produced, for every bin, the  *)
(* real-space fields F_k[i] and N_k[i] (the inverse transforms of the      *)
(* masked copies of the input grid) and the in-shell power pofk_bin[i].    *)
(* These are inputs: any small real-space field is admitted, which covers  *)
(* what the transform returns including its round-off (a count field with  *)
(* negative cells).  The all-reduce over workers makes every sum a sum     *)
(* over all real cells of the global grid.                                 *)
(***************************************************************************)

Orders == {2, 3}
Cells == 1 .. 2

\* One shell as the shell loop leaves it: F and N over the real cells, and p
\* the mean |delta|^2 of the shell.
ShellInputs ==
    { [F |-> <<0, 0>>,  N |-> <<0, 0>>,  p |-> 0],    \* empty shell
      [F |-> <<1, 1>>,  N |-> <<1, 1>>,  p |-> 1],
      [F |-> <<2, -1>>, N |-> <<1, 0>>,  p |-> 2],
      [F |-> <<1, 2>>,  N |-> <<-1, 0>>, p |-> 1],    \* round-off: N < 0
      [F |-> <<0, 0>>,  N |-> <<1, 1>>,  p |-> 0] }   \* zero field in shell

\* Bin centres of a linear and of a logarithmic binning
KShapes(n) ==
    { [i \in 0 .. n - 1 |-> 1 + i], [i \in 0 .. n - 1 |-> Power(2, i) - 1] }

Bins == 0 .. nbins - 1
nbins_tot == Power(nbins, order)
Flat == 0 .. nbins_tot - 1

\* Shell edges and midpoints, in units of 1/4 of the unit of kcentre
khigh4(i) ==
    IF i < nbins - 1
    THEN 4 * kcentre[i] + 2 * (kcentre[i + 1] - kcentre[i])
    ELSE 4 * kcentre[nbins - 1]
\* every shell starting at its own bin centre
klow4_FromCentre(i) == 4 * kcentre[i]

klow4(i) == IF i = 0 THEN 4 * kcentre[0] ELSE khigh4(i - 1)
k_bin4(i) == (khigh4(i) + klow4(i)) \div 2
deltak4 == 4 * (kcentre[1] - kcentre[0])

\* ik[ii] = i / n % nbins with n = nbins^(order-1-ii): first digit most
\* significant (the tuple loop of compute_polyspectrum)
DecodeMSF(i) ==
    [ii \in 0 .. order - 1 |-> (i \div Power(nbins, order - 1 - ii)) % nbins]

\* ik[ii] = i / n % nbins with n = nbins^ii: first digit least significant
\* (the tuple loop of compute_bispectrum, the fill loop of compute_polyspectrum)
DecodeLSF(i) ==
    [ii \in 0 .. order - 1 |-> (i \div Power(nbins, ii)) % nbins]

\* index = index * nbins + ik[ii], ii = 0 .. order-1
RECURSIVE FlatIndexUpTo(_, _)
FlatIndexUpTo(ik, m) ==
    IF m < 0 THEN 0 ELSE FlatIndexUpTo(ik, m - 1) * nbins + ik[m]
FlatIndex(ik) == FlatIndexUpTo(ik, order - 1)

\* std::sort(ik.begin(), ik.end(), std::less<int>())
SortAsc(ik) ==
    [j \in DOMAIN ik |->
        CHOOSE v \in {ik[ii] : ii \in DOMAIN ik} :
            /\ Cardinality({ii \in DOMAIN ik : ik[ii] < v}) <= j
            /\ j < Cardinality({ii \in DOMAIN ik : ik[ii] <= v})]

\* "valid" of compute_polyspectrum: no ii with ik[ii] > ik[ii-1]
PolyValid(ik) == \A ii \in 1 .. order - 1 : ~(ik[ii] > ik[ii - 1])

\* ksum += k_bin[ik[ii-1]], ii = 1 .. order-1
PolyKsum4(ik) ==
    SumOver([ii \in 1 .. order - 1 |-> k_bin4(ik[ii - 1])], 1 .. order - 1)

\* ksum < k_bin[ik[order-1]] - order*deltak/2
PolyNotClosable(ik) ==
    2 * PolyKsum4(ik) < 2 * k_bin4(ik[order - 1]) - order * deltak4

\* sum over the real cells of the product of the fields of the tuple's bins,
\* all-reduced over the workers
RealSum(G, ik) ==
    SumOver([x \in Cells |->
                ProdOver([ii \in DOMAIN ik |-> G[ik[ii]][x]], DOMAIN ik)],
            Cells)

\* X *= pow(1/Nmesh/(2 pi), N): the real grid has Nmesh^N cells
Normalized(X) == Frac(X, Cardinality(Cells))

\* P123[i] = (N123_current > 0.0) ? F123_current / N123_current : 0.0
SetP(Fcur, Ncur) == IF RatIsPos(Ncur) THEN RatDiv(Fcur, Ncur) ELSE Zero
\* the count is stored without the clamp at zero
SetN_Unclamped(Fcur, Ncur) == Ncur

\* N123[i] = (N123_current > 0.0) ? N123_current : 0.0
SetN(Fcur, Ncur) == IF RatIsPos(Ncur) THEN Ncur ELSE Zero

\* Values of the variables of a routine that a specification does not run
IdleSmooth == smoothing_method = "" /\ smoothing_scale2 = Zero
IdleMult == los = <<>> /\ nell = 0 /\ Pell = <<>>
IdleRsd == vel = <<>> /\ velocity_to_displacement = 0 /\ dir = 0
IdleShell == acc = <<>> /\ kmean_bin = <<>>
IdleColl == cpos = <<>> /\ clog = <<>>
IdleGad ==
    /\ gfile = <<>> /\ gpos = 0 /\ gopen = FALSE /\ endian_swap = FALSE
    /\ header_is_read = FALSE /\ header_copied = 0 /\ gbuffer = <<>>
    /\ gpc = "idle" /\ gsent = <<>> /\ gcall = <<>>
IdleExt == IdleColl /\ IdleGad
IdleGridIn(status) ==
    /\ grid_status = status /\ Nmesh = 0 /\ Ndim = 0 /\ NTasks = 0
    /\ Local_nx = <<>> /\ field = "none" /\ fgrid = <<>>
IdleGrid == IdleGridIn("FOURIER")
IdleBin ==
    /\ bn = 0 /\ bkmin = 0 /\ bkmax = 0
    /\ pofk = <<>> /\ wpc = <<>> /\ ind = <<>> /\ wsum = <<>>
    /\ oplog = <<>> /\ NumPartTotal = 0
IdlePart ==
    /\ NumPart = 0 /\ pos = <<>> /\ pos0 = <<>> /\ scattered = <<>>
    /\ ipc = "idle"
IdleTuples(name) ==
    /\ routine = name /\ order = 0 /\ nbins = 0 /\ kcentre = <<>>
    /\ F_k = <<>> /\ N_k = <<>> /\ pofk_bin = <<>> /\ pc = "idle" /\ idx = 0
    /\ P123 = <<>> /\ N123 = <<>> /\ evaluated = {} /\ skipped = {}
    /\ result = <<>>

\* ---- compute_polyspectrum: one iteration of the tuple loop
PolyTupleStep ==
    /\ routine = "polyspectrum" /\ pc = "tuples"
    /\ LET ik == DecodeMSF(idx)
           Ncur == Normalized(RealSum(N_k, ik))
           Fcur == Normalized(RealSum(F_k, ik))
       IN  IF ~PolyValid(ik)
           THEN UNCHANGED <<P123, N123, evaluated, skipped>>
           ELSE IF PolyNotClosable(ik)
           THEN /\ N123' = [N123 EXCEPT ![idx] = Zero]
                /\ P123' = [P123 EXCEPT ![idx] = Zero]
                /\ skipped' = skipped \cup {idx}
                /\ UNCHANGED evaluated
           ELSE /\ P123' = [P123 EXCEPT ![idx] = SetP(Fcur, Ncur)]
                /\ N123' = [N123 EXCEPT ![idx] = SetN(Fcur, Ncur)]
                /\ evaluated' = evaluated \cup {idx}
                /\ UNCHANGED skipped
    /\ idx' = IF idx + 1 < nbins_tot THEN idx + 1 ELSE 0
    /\ pc' = IF idx + 1 < nbins_tot THEN "tuples" ELSE "fill"
    /\ UNCHANGED <<routine, order, nbins, kcentre, F_k, N_k, pofk_bin, result>>
    /\ UNCHANGED <<gridVars, binVars, partVars, smoothVars, multVars, rsdVars, shellVars, extVars>>

\* if(X[index] == 0.0) X[index] = X[i]
FillIfZero(X, index, i) ==
    IF RatIsZero(X[index]) THEN [X EXCEPT ![index] = X[i]] ELSE X

\* ---- compute_polyspectrum: one iteration of the "set stuff not computed" loop
PolyFillStep ==
    /\ routine = "polyspectrum" /\ pc = "fill"
    /\ LET ik == DecodeLSF(idx)
           index == FlatIndex(SortAsc(ik))
       IN  IF ~PolyValid(ik)
           THEN UNCHANGED <<P123, N123>>
           ELSE /\ P123' = FillIfZero(P123, index, idx)
                /\ N123' = FillIfZero(N123, index, idx)
    /\ idx' = IF idx + 1 < nbins_tot THEN idx + 1 ELSE 0
    /\ pc' = IF idx + 1 < nbins_tot THEN "fill" ELSE "copy"
    /\ UNCHANGED <<routine, order, nbins, kcentre, F_k, N_k, pofk_bin,
                   evaluated, skipped, result>>
    /\ UNCHANGED <<gridVars, binVars, partVars, smoothVars, multVars, rsdVars, shellVars, extVars>>

\* ---- compute_polyspectrum / compute_bispectrum: copy results over
CopyResults ==
    /\ routine \in {"polyspectrum", "bispectrum"} /\ pc = "copy"
    /\ result' = [P123 |-> P123, N123 |-> N123,
                  kbin |-> [i \in Bins |-> k_bin4(i)],
                  pofk |-> pofk_bin]
    /\ pc' = "done"
    /\ UNCHANGED <<routine, order, nbins, kcentre, F_k, N_k, pofk_bin, idx,
                   P123, N123, evaluated, skipped>>
    /\ UNCHANGED <<gridVars, binVars, partVars, smoothVars, multVars, rsdVars, shellVars, extVars>>

NoResult == [P123 |-> <<>>, N123 |-> <<>>, kbin |-> <<>>, pofk |-> <<>>]

\* State at the start of the tuple loop: result vectors zero-initialised
InitTuples(r, ords) ==
    /\ routine = r
    /\ order \in ords
    /\ nbins \in 2 .. MaxBins
    /\ kcentre \in KShapes(nbins)
    /\ \E sh \in [0 .. nbins - 1 -> ShellInputs] :
          /\ F_k = [i \in 0 .. nbins - 1 |-> sh[i].F]
          /\ N_k = [i \in 0 .. nbins - 1 |-> sh[i].N]
          /\ pofk_bin = [i \in 0 .. nbins - 1 |-> sh[i].p]
    /\ pc = "tuples"
    /\ idx = 0
    /\ P123 = [i \in 0 .. Power(nbins, order) - 1 |-> Zero]
    /\ N123 = [i \in 0 .. Power(nbins, order) - 1 |-> Zero]
    /\ evaluated = {}
    /\ skipped = {}
    /\ result = NoResult

InitPoly ==
    /\ InitTuples("polyspectrum", Orders)
    /\ IdleGrid /\ IdleBin /\ IdlePart /\ IdleSmooth /\ IdleMult /\ IdleRsd
    /\ IdleShell /\ IdleExt

NextPoly == PolyTupleStep \/ PolyFillStep \/ CopyResults

SpecPoly == InitPoly /\ [][NextPoly]_vars

-----------------------------------------------------------------------------
\* ---- compute_bispectrum

\* if(ik[0] > ik[1] or ik[1] > ik[2]) continue;
BiSkipOrder(ik) == ik[0] > ik[1] \/ ik[1] > ik[2]

\* k_bin[ik[0]] + k_bin[ik[1]] < k_bin[ik[2]] - 3*deltak/2.
BiNoTriangle(ik) ==
    2 * (k_bin4(ik[0]) + k_bin4(ik[1])) < 2 * k_bin4(ik[2]) - 3 * deltak4

\* norm = P(k1)P(k2) + P(k2)P(k3) + P(k3)P(k1); if(norm > 0.0) B123[i] /= norm
Reduced(B, ik) ==
    LET norm == pofk_bin[ik[0]] * pofk_bin[ik[1]]
                + pofk_bin[ik[1]] * pofk_bin[ik[2]]
                + pofk_bin[ik[2]] * pofk_bin[ik[0]]
    IN  IF norm > 0 THEN RatDiv(B, RatOfInt(norm)) ELSE B

\* one iteration of the tuple loop
BiTupleStep ==
    /\ routine = "bispectrum" /\ pc = "tuples"
    /\ LET ik == DecodeLSF(idx)
           Ncur == Normalized(RealSum(N_k, ik))
           Fcur == Normalized(RealSum(F_k, ik))
       IN  IF BiSkipOrder(ik)
           THEN UNCHANGED <<P123, N123, evaluated, skipped>>
           ELSE IF BiNoTriangle(ik)
           THEN /\ N123' = [N123 EXCEPT ![idx] = Zero]
                /\ P123' = [P123 EXCEPT ![idx] = Zero]
                /\ skipped' = skipped \cup {idx}
                /\ UNCHANGED evaluated
           ELSE /\ P123' = [P123 EXCEPT ![idx] = Reduced(SetP(Fcur, Ncur), ik)]
                /\ N123' = [N123 EXCEPT ![idx] = SetN(Fcur, Ncur)]
                /\ evaluated' = evaluated \cup {idx}
                /\ UNCHANGED skipped
    /\ idx' = IF idx + 1 < nbins_tot THEN idx + 1 ELSE 0
    /\ pc' = IF idx + 1 < nbins_tot THEN "tuples" ELSE "fill"
    /\ UNCHANGED <<routine, order, nbins, kcentre, F_k, N_k, pofk_bin, result>>
    /\ UNCHANGED <<gridVars, binVars, partVars, smoothVars, multVars, rsdVars, shellVars, extVars>>

\* index0 repeats index1, the ascending permutation is never written
BiFillTargets_NoIndex0(inds) ==
    << (inds[0] * nbins + inds[2]) * nbins + inds[1],
       (inds[0] * nbins + inds[2]) * nbins + inds[1],
       (inds[1] * nbins + inds[2]) * nbins + inds[0],
       (inds[1] * nbins + inds[0]) * nbins + inds[2],
       (inds[2] * nbins + inds[0]) * nbins + inds[1],
       (inds[2] * nbins + inds[1]) * nbins + inds[0] >>

\* index0 .. index5 of the sorted triple inds
BiFillTargets(inds) ==
    << (inds[0] * nbins + inds[1]) * nbins + inds[2],
       (inds[0] * nbins + inds[2]) * nbins + inds[1],
       (inds[1] * nbins + inds[2]) * nbins + inds[0],
       (inds[1] * nbins + inds[0]) * nbins + inds[2],
       (inds[2] * nbins + inds[0]) * nbins + inds[1],
       (inds[2] * nbins + inds[1]) * nbins + inds[0] >>

\* the six statements if(B123[index_m] == 0.0) B123[index_m] = B123[index],
\* executed in order
RECURSIVE BiFillSix(_, _, _, _)
BiFillSix(B, targets, index, m) ==
    IF m > Len(targets) THEN B
    ELSE BiFillSix(FillIfZero(B, targets[m], index), targets, index, m + 1)

\* one iteration of the loop nest over (i, j, k); idx = (i*nbins + j)*nbins + k
BiFillStep ==
    /\ routine = "bispectrum" /\ pc = "fill"
    /\ LET inds == SortAsc(DecodeMSF(idx))
       IN  P123' = BiFillSix(P123, BiFillTargets(inds), idx, 1)
    /\ idx' = IF idx + 1 < nbins_tot THEN idx + 1 ELSE 0
    /\ pc' = IF idx + 1 < nbins_tot THEN "fill" ELSE "copy"
    /\ UNCHANGED <<routine, order, nbins, kcentre, F_k, N_k, pofk_bin, N123,
                   evaluated, skipped, result>>
    /\ UNCHANGED <<gridVars, binVars, partVars, smoothVars, multVars, rsdVars, shellVars, extVars>>

InitBi ==
    /\ InitTuples("bispectrum", {3})
    /\ IdleGrid /\ IdleBin /\ IdlePart /\ IdleSmooth /\ IdleMult /\ IdleRsd
    /\ IdleShell /\ IdleExt

NextBi == BiTupleStep \/ BiFillStep \/ CopyResults

SpecBi == InitBi /\ [][NextBi]_vars

-----------------------------------------------------------------------------
\* Properties of the polyspectrum tensors

\* two flat indices address permutations of one another
SameBins(i, j) == SortAsc(DecodeMSF(i)) = SortAsc(DecodeMSF(j))

\* i_1 <= i_2 <= ... <= i_n for the mixed-radix decoding of i
Ascending(i) ==
    LET ik == DecodeMSF(i) IN \A a \in 1 .. order - 1 : ik[a - 1] <= ik[a]

\* sum_{a<n} k_{i_a} >= k_{i_n} - n deltak / 2
Closable(i) ==
    LET ik == DecodeMSF(i)
        ks == SumOver([a \in 0 .. order - 2 |-> k_bin4(ik[a])], 0 .. order - 2)
    IN  2 * ks >= 2 * k_bin4(ik[order - 1]) - order * deltak4

\* C1: after compute_polyspectrum returns, P123 takes the same value at all
\* permutations of every index tuple.
C1_PolySymmetric ==
    (routine = "polyspectrum" /\ pc = "done") =>
        \A i, j \in Flat : SameBins(i, j) => result.P123[i] = result.P123[j]

\* C2: after compute_bispectrum returns, the six entries of B123 at the
\* permutations of every bin triple are equal.
C2_BiSymmetric ==
    (routine = "bispectrum" /\ pc = "done") =>
        \A i, j \in Flat : SameBins(i, j) => result.P123[i] = result.P123[j]

\* C2 witness: a returned bispectrum with a nonzero value at a triple of
\* three distinct bins, so that the fill had five other cells to write.
C2_Witness ==
    /\ routine = "bispectrum" /\ pc = "done"
    /\ \E i \in Flat :
          /\ ~RatIsZero(result.P123[i])
          /\ Cardinality({DecodeMSF(i)[a] : a \in 0 .. 2}) = 3
          /\ ~Ascending(i) /\ i \notin evaluated

\* C3: compute_polyspectrum evaluates the real-space sums for exactly the
\* flat indices whose decoding is non-decreasing (and closable); a tuple
\* with a descent is never evaluated.
C3_EvaluatesAscending ==
    (routine = "polyspectrum" /\ pc # "tuples") =>
        evaluated = {i \in Flat : Ascending(i) /\ Closable(i)}

\* C4: every evaluated tuple has P123 = F/N if the normalised count N > 0
\* and P123 = N123 = 0 otherwise; on return every N123 >= 0 and a nonzero
\* P123 has a positive N123 at the same index.
C4_ClampedCounts ==
    (routine = "polyspectrum" /\ pc = "done") =>
        \A i \in Flat :
            /\ result.N123[i][1] >= 0
            /\ ~RatIsZero(result.P123[i]) => RatIsPos(result.N123[i])
            /\ i \in evaluated =>
                  LET Ncur == Normalized(RealSum(N_k, DecodeMSF(i)))
                      Fcur == Normalized(RealSum(F_k, DecodeMSF(i)))
                  IN  IF Ncur[1] > 0
                      THEN /\ result.P123[i] = RatDiv(Fcur, Ncur)
                           /\ result.N123[i] = Ncur
                      ELSE /\ result.P123[i] = Zero
                           /\ result.N123[i] = Zero

\* C4 witness: a returned polyspectrum in which one evaluated tuple had a
\* negative count (clamped) and another a nonzero value.
C4_Witness ==
    /\ routine = "polyspectrum" /\ pc = "done"
    /\ \E i \in evaluated : RealSum(N_k, DecodeMSF(i)) < 0
    /\ \E i \in evaluated : RealSum(N_k, DecodeMSF(i)) = 0
    /\ \E i \in evaluated : ~RatIsZero(result.P123[i])

-----------------------------------------------------------------------------
(***************************************************************************)
(* The slab-decomposed Fourier grid (FFTWGrid<N>)                          *)
(*                                                                         *)
(* Worker r owns Local_nx[r] consecutive x-planes; the Fourier view has    *)
(* Nmesh/2 + 1 cells along the last axis.  The field is one of a few       *)
(* Fourier fields given by |delta(k)|^2 as a function of the mode.         *)
(***************************************************************************)

Ranks == 0 .. NTasks - 1
Dims == {2, 3}
Fields == {"zero", "flat", "dc"}

\* the splits of nm planes over nt workers; rank 0 owns the plane of k = 0
Slabs(nm, nt) ==
    {l \in [0 .. nt - 1 -> 0 .. nm] : l[0] > 0 /\ SumOver(l, 0 .. nt - 1) = nm}

local_x_start(r) == SumOver([q \in 0 .. r - 1 |-> Local_nx[q]], 0 .. r - 1)

\* size_t(Local_nx) * FML::power(size_t(Nmesh), N-2) * size_t(Nmesh/2+1)
NmeshTotLocal(r) == Local_nx[r] * Power(Nmesh, Ndim - 2) * (Nmesh \div 2 + 1)

\* Global integer coordinates of local Fourier cell i of worker r (row-major,
\* last axis fastest, the owned-x offset added back)
FourierCoord(r, i) ==
    LET nlast == Nmesh \div 2 + 1
        rest == i \div nlast
    IN  [d \in 0 .. Ndim - 1 |->
            IF d = Ndim - 1 THEN i % nlast
            ELSE IF d = 0 THEN rest \div Power(Nmesh, Ndim - 2) + local_x_start(r)
            ELSE (rest \div Power(Nmesh, Ndim - 2 - d)) % Nmesh]

\* wavevector component in units of 2 pi: j if j <= Nmesh/2 else j - Nmesh
\* (the last axis only stores 0 .. Nmesh/2)
WaveNumber(j) == IF j <= Nmesh \div 2 THEN j ELSE j - Nmesh

\* |k|^2 in units of (2 pi)^2
Kmag2(r, i) ==
    LET c == FourierCoord(r, i)
    IN  SumOver([d \in 0 .. Ndim - 1 |-> WaveNumber(c[d]) * WaveNumber(c[d])],
                0 .. Ndim - 1)

\* A complex amplitude: exact real and imaginary parts, and the filter
\* factors without a rational value that have been multiplied onto it
Amplitude(re, im) == [re |-> re, im |-> im, by |-> <<>>]

LocalCells(r) == 0 .. NmeshTotLocal(r) - 1

\* the amplitude field "f" has at local cell i of worker r
FieldCell(f, r, i) ==
    IF f = "flat" \/ (f = "dc" /\ Kmag2(r, i) = 0)
    THEN Amplitude(RatOfInt(1), Zero)
    ELSE IF f = "ramp"
    THEN Amplitude(RatOfInt(1 + (i % (Nmesh \div 2 + 1))), Zero)
    ELSE Amplitude(Zero, Zero)

FieldGrid(f) == [r \in Ranks |-> [i \in LocalCells(r) |-> FieldCell(f, r, i)]]

NoGrid == [r \in Ranks |-> <<>>]

\* std::norm(cdelta[ind])
Norm2(r, i) ==
    LET c == fgrid[r][i]
    IN  RatAdd(RatMul(c.re, c.re), RatMul(c.im, c.im))

-----------------------------------------------------------------------------
(***************************************************************************)
(* bin_up_power_spectrum(fourier_grid, pofk)                               *)
(***************************************************************************)

PofkBins == 0 .. bn - 1

\* the values |k|^2 takes on the grid
K2s == 0 .. Ndim * (Nmesh \div 2) * (Nmesh \div 2)

\* The array kbin of a binning object holds, for every bin, the weighted sum
\* of |k| over the modes added to it.  Square roots of different integers do
\* not combine, so the sum is kept as the weight added at every value of
\* |k|^2: kbin[b][q] is the coefficient of sqrt(q).
NoModes == [q \in K2s |-> Zero]

\* int last_coord = ind % (Nmesh / 2 + 1);
\* double weight = last_coord > 0 && last_coord < Nmesh / 2 ? 2.0 : 1.0;
Weight(i) ==
    LET last_coord == i % (Nmesh \div 2 + 1)
    IN  IF last_coord > 0 /\ last_coord < Nmesh \div 2 THEN 2 ELSE 1

\* pofk.n > 0 && pofk.kmax > pofk.kmin && pofk.kmin >= 0.0
BinningConsistent == bn > 0 /\ bkmax > bkmin /\ bkmin >= 0

\* The bin of a mode with |k|^2 = k2 in a linear binning of bn bins over
\* [bkmin, bkmax), -1 if out of range (compared on squares)
BinOf(k2) ==
    LET edge(b) == bn * bkmin + b * (bkmax - bkmin)     \* bn times the edge
        inbin(b) ==
            /\ edge(b) <= 0 \/ Power(edge(b), 2) <= bn * bn * k2
            /\ edge(b + 1) > 0 /\ bn * bn * k2 < Power(edge(b + 1), 2)
    IN  IF \E b \in PofkBins : inbin(b)
        THEN CHOOSE b \in PofkBins : inbin(b)
        ELSE -1

\* pofk.reset()
ResetBinning ==
    [pofk |-> [b \in PofkBins |-> Zero], count |-> [b \in PofkBins |-> Zero],
     kbin |-> [b \in PofkBins |-> NoModes]]

\* pofk.add_to_bin(kmag, value, weight)
AddToBin(obj, k2, value, weight) ==
    LET b == BinOf(k2)
    IN  IF b = -1 THEN obj
        ELSE [pofk |-> [obj.pofk EXCEPT
                          ![b] = RatAdd(@, RatMul(RatOfInt(weight), value))],
              count |-> [obj.count EXCEPT ![b] = RatAdd(@, RatOfInt(weight))],
              kbin |-> [obj.kbin EXCEPT ![b][k2] = RatAdd(@, RatOfInt(weight))]]

\* the arrays a binning object holds before it is handed to the estimator
StaleBinning(n) ==
    [pofk |-> [b \in 0 .. n - 1 |-> RatOfInt(1)],
     count |-> [b \in 0 .. n - 1 |-> RatOfInt(1)],
     kbin |-> [b \in 0 .. n - 1 |-> [q \in K2s |-> RatOfInt(1)]]]

\* worker r enters: the two assert_mpi, then pofk.reset()
BinUpEnter(r) ==
    /\ wpc[r] = "enter"
    /\ IF Nmesh > 0 /\ BinningConsistent
       THEN /\ pofk' = [pofk EXCEPT ![r] = ResetBinning]
            /\ wpc' = [wpc EXCEPT ![r] = "loop"]
       ELSE /\ wpc' = [wpc EXCEPT ![r] = "aborted"]
            /\ UNCHANGED pofk
    /\ oplog' = [oplog EXCEPT ![r] = Append(@, "bin_up_power_spectrum")]
    /\ UNCHANGED <<gridVars, bn, bkmin, bkmax, ind, wsum, NumPartTotal, polyVars, partVars, smoothVars, multVars, rsdVars, shellVars, extVars>>

\* the loop over the local Fourier cells i .. NmeshTotLocal(r)-1 of worker r,
\* applied to the binning object obj
\* (the iterations lo .. hi-1, in this order; the first half of the range is
\* computed before the second half starts from it)
RECURSIVE BinUpLoopFrom(_, _, _, _)
BinUpLoopFrom(r, lo, hi, obj) ==
    IF lo >= hi THEN obj
    ELSE IF hi = lo + 1
         THEN AddToBin(obj, Kmag2(r, lo), Norm2(r, lo), Weight(lo))
         ELSE LET mid == (lo + hi) \div 2
                  first == BinUpLoopFrom(r, lo, mid, obj)
              IN  IF DOMAIN first.count = DOMAIN obj.count
                  THEN BinUpLoopFrom(r, mid, hi, first)
                  ELSE first

\* the weights that loop hands to add_to_bin
RECURSIVE WeightsFrom(_, _, _)
WeightsFrom(r, lo, hi) ==
    IF lo >= hi THEN 0
    ELSE IF hi = lo + 1 THEN Weight(lo)
         ELSE LET mid == (lo + hi) \div 2
              IN  WeightsFrom(r, lo, mid) + WeightsFrom(r, mid, hi)

\* worker r runs the loop over its local Fourier cells and arrives at
\* pofk.normalize()
BinUpLoop(r) ==
    /\ wpc[r] = "loop"
    /\ pofk' = [pofk EXCEPT ![r] = BinUpLoopFrom(r, 0, NmeshTotLocal(r), @)]
    /\ wsum' = [wsum EXCEPT ![r] = WeightsFrom(r, 0, NmeshTotLocal(r))]
    /\ ind' = [ind EXCEPT ![r] = NmeshTotLocal(r)]
    /\ wpc' = [wpc EXCEPT ![r] = "normalize"]
    /\ UNCHANGED <<gridVars, bn, bkmin, bkmax, oplog, NumPartTotal, polyVars, partVars, smoothVars, multVars, rsdVars, shellVars, extVars>>

RECURSIVE RatSumOver(_, _)
RatSumOver(f, S) ==
    IF S = {} THEN Zero
    ELSE LET x == CHOOSE y \in S : TRUE IN RatAdd(f[x], RatSumOver(f, S \ {x}))

\* the sum of the rationals f[lo] .. f[hi], by halves (both halves are
\* computed before they are added)
RECURSIVE RatSumRange(_, _, _)
RatSumRange(f, lo, hi) ==
    IF lo > hi THEN Zero
    ELSE IF lo = hi THEN f[lo]
    ELSE LET mid == (lo + hi) \div 2
             left == RatSumRange(f, lo, mid)
             right == RatSumRange(f, mid + 1, hi)
         IN  IF left[2] > 0 /\ right[2] > 0 THEN RatAdd(left, right) ELSE Zero

\* the sum of the integers f[lo] .. f[hi], by halves
RECURSIVE SumRange(_, _, _)
SumRange(f, lo, hi) ==
    IF lo > hi THEN 0
    ELSE IF lo = hi THEN f[lo]
    ELSE LET mid == (lo + hi) \div 2
             left == SumRange(f, lo, mid)
             right == SumRange(f, mid + 1, hi)
         IN  IF left = left THEN left + right ELSE 0

\* what normalize() leaves in the binning object of every worker, P[r] being
\* the object of worker r: the sums over the workers, pofk and kbin divided
\* by count where count > 0
NormalizedOver(P) ==
    LET cnt == [b \in PofkBins |->
                  RatSumOver([r \in Ranks |-> P[r].count[b]], Ranks)]
        sum == [b \in PofkBins |->
                  RatSumOver([r \in Ranks |-> P[r].pofk[b]], Ranks)]
        ksum == [b \in PofkBins |-> [q \in K2s |->
                  RatSumOver([r \in Ranks |-> P[r].kbin[b][q]], Ranks)]]
    IN  [pofk |-> [b \in PofkBins |->
                     IF RatIsPos(cnt[b]) THEN RatDiv(sum[b], cnt[b])
                     ELSE sum[b]],
         count |-> cnt,
         kbin |-> [b \in PofkBins |-> [q \in K2s |->
                     IF RatIsPos(cnt[b]) THEN RatDiv(ksum[b][q], cnt[b])
                     ELSE ksum[b][q]]]]

\* pofk.normalize(): all-reduce sum over the workers, then divide pofk and
\* kbin by count where count > 0
Normalize ==
    /\ NTasks > 0
    /\ \A r \in Ranks : wpc[r] = "normalize"
    /\ pofk' = [r \in Ranks |-> NormalizedOver(pofk)]
    /\ wpc' = [r \in Ranks |-> "done"]
    /\ UNCHANGED <<gridVars, bn, bkmin, bkmax, ind, wsum, oplog, NumPartTotal,
                   polyVars, partVars, smoothVars, multVars, rsdVars, shellVars, extVars>>

\* The binnings the estimator is handed: consistent ones and inconsistent ones
Binnings ==
    {<<n, lo, hi>> \in (0 .. MaxPofkBins) \X (-1 .. 0) \X {0, 2} :
        n = MaxPofkBins \/ (lo = 0 /\ hi = 2)}

InitGrid(statuses) ==
    /\ grid_status \in statuses
    /\ Ndim \in Dims
    /\ Nmesh \in 1 .. MaxMesh
    /\ NTasks \in 1 .. MaxTasks
    /\ Local_nx \in Slabs(Nmesh, NTasks)
    /\ field \in Fields

\* the workers are handed a binning and stand at the entry "at" of a routine
InitCall(name, at, statuses) ==
    /\ InitGrid(statuses)
    /\ \E b \in Binnings : bn = b[1] /\ bkmin = b[2] /\ bkmax = b[3]
    /\ pofk = [r \in Ranks |-> StaleBinning(bn)]
    /\ wpc = [r \in Ranks |-> at]
    /\ ind = [r \in Ranks |-> 0]
    /\ wsum = [r \in Ranks |-> 0]
    /\ oplog = [r \in Ranks |-> <<>>]
    /\ IdleTuples(name)

\* bin_up_power_spectrum is handed a grid that holds the field
InitBinUpIn(statuses) ==
    /\ InitCall("bin_up", "enter", statuses)
    /\ fgrid = FieldGrid(field)
    /\ NumPartTotal = 0 /\ IdlePart /\ IdleSmooth /\ IdleMult /\ IdleRsd
    /\ IdleShell /\ IdleExt

InitBinUp == InitBinUpIn({"FOURIER"})

NextBinUp ==
    \/ \E r \in Ranks : BinUpEnter(r)
    \/ \E r \in Ranks : BinUpLoop(r)
    \/ Normalize

SpecBinUp == InitBinUp /\ [][NextBinUp]_vars

\* C5: the weights given to the stored Fourier cells sum, over all owned
\* cells of all workers, to Nmesh^Ndim, for every Nmesh >= 1, even or odd.
C5_WeightsCountLattice ==
    (NTasks > 0 /\ \A r \in Ranks : wpc[r] = "done") =>
        SumOver(wsum, Ranks) = Power(Nmesh, Ndim)

-----------------------------------------------------------------------------
(***************************************************************************)
(* compute_power_spectrum(Ngrid, part, NumPart, NumPartTotal, pofk, method)*)
(*                                                                         *)
(* Every worker runs the routine on its slab of the grid density_k.  The   *)
(* particles fix the Fourier field the deconvolved transform holds; it is  *)
(* the input "field".                                                      *)
(***************************************************************************)

MaxPart == 2

\* particles_to_grid<N,T>(part, NumPart, NumPartTotal, density_k, method)
PsScatter(r) ==
    /\ routine = "power_spectrum" /\ wpc[r] = "scatter"
    /\ oplog' = [oplog EXCEPT ![r] = Append(@, "particles_to_grid")]
    /\ wpc' = [wpc EXCEPT ![r] = "fft"]
    /\ UNCHANGED <<gridVars, bn, bkmin, bkmax, pofk, ind, wsum, NumPartTotal,
                   polyVars, partVars, smoothVars, multVars, rsdVars, shellVars, extVars>>

\* the status a grid has after the forward transform
StatusAfterForward(status) == "FOURIER"

\* density_k.fftw_r2c(): a collective call of all workers
PsForward ==
    /\ routine = "power_spectrum"
    /\ NTasks > 0
    /\ \A r \in Ranks : wpc[r] = "fft"
    /\ grid_status' = StatusAfterForward(grid_status)
    /\ fgrid' = FieldGrid(field)
    /\ oplog' = [r \in Ranks |-> Append(oplog[r], "fftw_r2c")]
    /\ wpc' = [r \in Ranks |-> "deconvolve"]
    /\ UNCHANGED <<Nmesh, Ndim, NTasks, Local_nx, field, bn, bkmin, bkmax,
                   pofk, ind, wsum, NumPartTotal, polyVars, partVars, smoothVars, multVars, rsdVars, shellVars, extVars>>

\* deconvolve_window_function_fourier<N>(density_k, method), then the call of
\* bin_up_power_spectrum<N>(density_k, pofk)
PsDeconvolve(r) ==
    /\ routine = "power_spectrum" /\ wpc[r] = "deconvolve"
    /\ oplog' = [oplog EXCEPT
                   ![r] = Append(@, "deconvolve_window_function_fourier")]
    /\ wpc' = [wpc EXCEPT ![r] = "enter"]
    /\ UNCHANGED <<gridVars, bn, bkmin, bkmax, pofk, ind, wsum, NumPartTotal,
                   polyVars, partVars, smoothVars, multVars, rsdVars, shellVars, extVars>>

\* the shot noise is subtracted only from bins that hold modes
SubtractShotNoise_SkipEmpty(obj, npart) ==
    [pofk |-> [b \in DOMAIN obj.pofk |->
                 IF RatIsPos(obj.count[b])
                 THEN RatSub(obj.pofk[b], Frac(1, npart))
                 ELSE obj.pofk[b]],
     count |-> obj.count, kbin |-> obj.kbin]

\* for(int i = 0; i < pofk.n; i++) pofk.pofk[i] -= 1.0/double(NumPartTotal);
SubtractShotNoise(obj, npart) ==
    [pofk |-> [b \in DOMAIN obj.pofk |-> RatSub(obj.pofk[b], Frac(1, npart))],
     count |-> obj.count, kbin |-> obj.kbin]

\* the shot-noise loop and the return
PsShotNoise(r) ==
    /\ routine = "power_spectrum" /\ wpc[r] = "done"
    /\ pofk' = [pofk EXCEPT ![r] = SubtractShotNoise(@, NumPartTotal)]
    /\ oplog' = [oplog EXCEPT ![r] = Append(@, "subtract_shot_noise")]
    /\ wpc' = [wpc EXCEPT ![r] = "returned"]
    /\ UNCHANGED <<gridVars, bn, bkmin, bkmax, ind, wsum, NumPartTotal,
                   polyVars, partVars, smoothVars, multVars, rsdVars, shellVars, extVars>>

InitPs ==
    /\ InitCall("power_spectrum", "scatter", {"REAL"})
    /\ fgrid = NoGrid
    /\ NumPartTotal \in 1 .. MaxPart
    /\ IdlePart /\ IdleSmooth /\ IdleMult /\ IdleRsd
    /\ IdleShell /\ IdleExt

NextPs ==
    \/ \E r \in Ranks : PsScatter(r)
    \/ PsForward
    \/ \E r \in Ranks : PsDeconvolve(r)
    \/ \E r \in Ranks : BinUpEnter(r)
    \/ \E r \in Ranks : BinUpLoop(r)
    \/ Normalize
    \/ \E r \in Ranks : PsShotNoise(r)

SpecPs == InitPs /\ [][NextPs]_vars

PsSequence ==
    << "particles_to_grid", "fftw_r2c", "deconvolve_window_function_fourier",
       "bin_up_power_spectrum", "subtract_shot_noise" >>

IsPrefix(s, t) == Len(s) <= Len(t) /\ s = SubSeq(t, 1, Len(s))

PsOrdered ==
    \A r \in Ranks :
        /\ IsPrefix(oplog[r], PsSequence)
        /\ wpc[r] = "returned" => oplog[r] = PsSequence
        /\ Len(oplog[r]) < 2 => grid_status = "REAL"
        /\ Len(oplog[r]) >= 2 => grid_status = "FOURIER"

PsSubtractsEveryBin ==
    \A r \in Ranks :
        (wpc[r] = "done" /\ wpc'[r] = "returned") =>
            /\ DOMAIN pofk'[r].pofk = 0 .. bn - 1
            /\ \A b \in 0 .. bn - 1 :
                  /\ pofk'[r].pofk[b] = RatSub(pofk[r].pofk[b], Frac(1, NumPartTotal))
                  /\ pofk'[r].count[b] = pofk[r].count[b]

\* C6: compute_power_spectrum performs scatter (grid REAL), forward FFT (grid
\* becomes FOURIER), deconvolution, bin_up and the shot-noise subtraction in
\* this order, each once, and subtracts 1/NumPartTotal from pofk[i] of every
\* bin i, empty bins included.
C6_PipelineOrder == []PsOrdered /\ [][PsSubtractsEveryBin]_vars

\* C6 witness: a worker has returned with an empty bin holding -1/NumPartTotal
\* next to a bin that holds modes.
C6_Witness ==
    /\ routine = "power_spectrum"
    /\ \E r \in Ranks :
          /\ wpc[r] = "returned"
          /\ \E b \in 0 .. bn - 1 :
                /\ RatIsZero(pofk[r].count[b])
                /\ pofk[r].pofk[b] = Frac(-1, NumPartTotal)
          /\ \E b \in 0 .. bn - 1 : RatIsPos(pofk[r].count[b])

-----------------------------------------------------------------------------
(***************************************************************************)
(* compute_power_spectrum_interlacing: the particle positions              *)
(*                                                                         *)
(* A coordinate x in [0,1) is held exactly as the integer x * Ticks, where *)
(* one tick is 1/(2 * Ngrid * SubCell) of the box, so that the half-cell   *)
(* shift 1/(2 * Ngrid) is SubCell ticks.  Ngrid is the variable Nmesh.     *)
(***************************************************************************)

SubCell == 2

Ticks == 2 * Nmesh * SubCell

\* const double shift = 1.0/double(2*Ngrid);
shift == Ticks \div (2 * Nmesh)

Particles == 0 .. NumPart - 1
Axes == 0 .. Ndim - 1

\* coordinates next to the places where a shifted coordinate reaches 1
Coords == {0, Ticks - shift - 1, Ticks - shift, Ticks - 1}

\* the positions a particle is given
PosInputs ==
    {[d \in Axes |-> IF d = 0 THEN a ELSE IF d = 1 THEN b ELSE Ticks - 1 - b] :
        a \in Coords, b \in Coords}

\* pos[0] += shift; pos[idim] += shift; if(pos[idim] >= 1.0) pos[idim] -= 1.0;
ShiftPos(x) ==
    [d \in Axes |->
        IF d = 0 THEN x[d] + shift
        ELSE IF x[d] + shift >= Ticks THEN x[d] + shift - Ticks
             ELSE x[d] + shift]

\* the shift back without the wrap at 0
ShiftBackPos_NoWrap(x) == [d \in Axes |-> x[d] - shift]

\* pos[0] -= shift; pos[idim] -= shift; if(pos[idim] < 0.0) pos[idim] += 1.0;
ShiftBackPos(x) ==
    [d \in Axes |->
        IF d = 0 THEN x[d] - shift
        ELSE IF x[d] - shift < 0 THEN x[d] - shift + Ticks
             ELSE x[d] - shift]

\* particles_to_grid(part, ..., density_k, ...)
IlScatter1 ==
    /\ routine = "interlacing" /\ ipc = "scatter1"
    /\ scattered' = Append(scattered, pos)
    /\ ipc' = "shift"
    /\ UNCHANGED <<NumPart, pos, pos0, polyVars, gridVars, binVars,
                   smoothVars, multVars, rsdVars, shellVars, extVars>>

\* the loop "Shift particles": every iteration touches its own particle only
IlShift ==
    /\ routine = "interlacing" /\ ipc = "shift"
    /\ pos' = [i \in Particles |-> ShiftPos(pos[i])]
    /\ ipc' = "scatter2"
    /\ UNCHANGED <<NumPart, pos0, scattered, polyVars, gridVars, binVars,
                   smoothVars, multVars, rsdVars, shellVars, extVars>>

\* particles_to_grid(part, ..., density_k2, ...)
IlScatter2 ==
    /\ routine = "interlacing" /\ ipc = "scatter2"
    /\ scattered' = Append(scattered, pos)
    /\ ipc' = "unshift"
    /\ UNCHANGED <<NumPart, pos, pos0, polyVars, gridVars, binVars,
                   smoothVars, multVars, rsdVars, shellVars, extVars>>

\* the loop "Shift particles back as not to ruin anything"
IlShiftBack ==
    /\ routine = "interlacing" /\ ipc = "unshift"
    /\ pos' = [i \in Particles |-> ShiftBackPos(pos[i])]
    /\ ipc' = "transform"
    /\ UNCHANGED <<NumPart, pos0, scattered, polyVars, gridVars, binVars,
                   smoothVars, multVars, rsdVars, shellVars, extVars>>

\* the two transforms, the mean of the two grids, deconvolution, bin_up and
\* the shot noise: none of them is handed the particles
IlRest ==
    /\ routine = "interlacing" /\ ipc = "transform"
    /\ grid_status' = StatusAfterForward(grid_status)
    /\ ipc' = "done"
    /\ UNCHANGED <<NumPart, pos, pos0, scattered, polyVars, Nmesh, Ndim, NTasks,
                   Local_nx, field, fgrid, binVars, smoothVars, multVars, rsdVars, shellVars, extVars>>

InitInterlace ==
    /\ IdleTuples("interlacing") /\ IdleBin
    /\ grid_status = "REAL" /\ Nmesh \in 1 .. MaxMesh /\ Ndim \in Dims
    /\ NTasks = 1 /\ Local_nx = [r \in {0} |-> Nmesh] /\ field = "none"
    /\ fgrid = NoGrid
    /\ NumPart \in 1 .. MaxPart
    /\ pos \in [Particles -> PosInputs]
    /\ pos0 = pos
    /\ scattered = <<>>
    /\ ipc = "scatter1"
    /\ IdleSmooth /\ IdleMult /\ IdleRsd
    /\ IdleShell /\ IdleExt

NextInterlace ==
    IlScatter1 \/ IlShift \/ IlScatter2 \/ IlShiftBack \/ IlRest

SpecInterlace == InitInterlace /\ [][NextInterlace]_vars

\* C7: when compute_power_spectrum_interlacing has returned, every coordinate
\* of every particle has the value it had before the call.
C7_PositionsRestored ==
    (routine = "interlacing" /\ ipc = "done") => pos = pos0

\* C7 witness: the routine has returned, the second scatter has read a
\* coordinate that was wrapped at 1 on an axis >= 1 and a coordinate beyond 1
\* on axis 0.
C7_Witness ==
    /\ routine = "interlacing" /\ ipc = "done"
    /\ Len(scattered) = 2
    /\ \E i \in Particles :
          /\ scattered[2][i][0] >= Ticks
          /\ \E d \in Axes \ {0} : scattered[2][i][d] < pos0[i][d]

-----------------------------------------------------------------------------
(***************************************************************************)
(* compute_power_spectrum_direct_summation(Ngrid, part, NumPart, pofk)     *)
(*                                                                         *)
(* All workers hold the same particles.  A coordinate x in [0,1) is held   *)
(* as the integer 4x, so that exp(-i k.x) with k = 2 pi j is a power of -i *)
(* and the sums are exact.                                                 *)
(***************************************************************************)

MaxDirectMesh == 3

\* the positions a particle is given, in quarters of the box
QuarterInputs == {[d \in Axes |-> (a * (d + 1)) % 4] : a \in 0 .. 3}

\* kx += kvec[idim] * x[idim], in units of 2 pi / 4
PhaseIndex(r, i, p) ==
    LET c == FourierCoord(r, i)
    IN  SumOver([d \in Axes |-> WaveNumber(c[d]) * pos[p][d]], Axes) % 4

\* std::exp(-kx * I) as <<real, imag>>
ExpMinusI(m) ==
    IF m = 0 THEN <<1, 0>>
    ELSE IF m = 1 THEN <<0, -1>>
    ELSE IF m = 2 THEN <<-1, 0>>
    ELSE <<0, 1>>

\* the reduction over the particles: {real, imag}
PhaseSum(r, i) ==
    <<SumOver([p \in Particles |-> ExpMinusI(PhaseIndex(r, i, p))[1]], Particles),
      SumOver([p \in Particles |-> ExpMinusI(PhaseIndex(r, i, p))[2]], Particles)>>

\* if(ThisTask == 0 and complex_index == 0) sum -= 1.0;
\* f[complex_index] = sum * norm;
DirectAmplitude(r, i) ==
    LET sum == PhaseSum(r, i)
        real == IF r = 0 /\ i = 0 THEN sum[1] - 1 ELSE sum[1]
    IN  Amplitude(Frac(real, NumPart), Frac(sum[2], NumPart))

\* the assert on Ngrid and the loop over the Fourier cells of worker r
DsFill(r) ==
    /\ routine = "direct_summation" /\ wpc[r] = "fill"
    /\ IF Nmesh > 0
       THEN /\ fgrid' = [fgrid EXCEPT
                           ![r] = [i \in LocalCells(r) |-> DirectAmplitude(r, i)]]
            /\ wpc' = [wpc EXCEPT ![r] = "enter"]
       ELSE /\ wpc' = [wpc EXCEPT ![r] = "aborted"]
            /\ UNCHANGED fgrid
    /\ UNCHANGED <<grid_status, Nmesh, Ndim, NTasks, Local_nx, field, bn, bkmin,
                   bkmax, pofk, ind, wsum, oplog, NumPartTotal, polyVars,
                   partVars, smoothVars, multVars, rsdVars, shellVars, extVars>>

\* for(int i = 0; i < pofk.n; i++) pofk.pofk[i] -= 1.0 / double(NumPart);
DsShotNoise(r) ==
    /\ routine = "direct_summation" /\ wpc[r] = "done"
    /\ pofk' = [pofk EXCEPT ![r] = SubtractShotNoise(@, NumPart)]
    /\ wpc' = [wpc EXCEPT ![r] = "returned"]
    /\ UNCHANGED <<gridVars, bn, bkmin, bkmax, ind, wsum, oplog, NumPartTotal,
                   polyVars, partVars, smoothVars, multVars, rsdVars, shellVars, extVars>>

InitDirect ==
    /\ IdleTuples("direct_summation")
    /\ grid_status = "REAL" /\ Ndim \in Dims /\ Nmesh \in 1 .. MaxDirectMesh
    /\ NTasks \in 1 .. MaxTasks
    /\ Local_nx \in Slabs(Nmesh, NTasks)
    /\ field = "none" /\ fgrid = NoGrid
    /\ \E b \in Binnings : bn = b[1] /\ bkmin = b[2] /\ bkmax = b[3]
    /\ pofk = [r \in Ranks |-> StaleBinning(bn)]
    /\ wpc = [r \in Ranks |-> "fill"]
    /\ ind = [r \in Ranks |-> 0]
    /\ wsum = [r \in Ranks |-> 0]
    /\ oplog = [r \in Ranks |-> <<>>]
    /\ NumPartTotal = 0
    /\ NumPart \in 1 .. MaxPart
    /\ pos \in [Particles -> QuarterInputs]
    /\ pos0 = pos /\ scattered = <<>> /\ ipc = "idle"
    /\ IdleSmooth /\ IdleMult /\ IdleRsd
    /\ IdleShell /\ IdleExt

NextDirect ==
    \/ \E r \in Ranks : DsFill(r)
    \/ \E r \in Ranks : BinUpEnter(r)
    \/ \E r \in Ranks : BinUpLoop(r)
    \/ Normalize
    \/ \E r \in Ranks : DsShotNoise(r)

SpecDirect == InitDirect /\ [][NextDirect]_vars

\* (1/NumPart) * sum_i exp(-i k.x_i)
MeanPhase(r, i) ==
    Amplitude(Frac(PhaseSum(r, i)[1], NumPart), Frac(PhaseSum(r, i)[2], NumPart))

\* C9: once a worker has filled its Fourier cells, the k = 0 mode (rank 0,
\* index 0) holds exactly 0 and every other mode holds
\* (1/NumPart) * sum_i exp(-i k.x_i), for every NumPart >= 1.
C9_ZeroModeVanishes ==
    routine = "direct_summation" =>
        \A r \in Ranks :
            wpc[r] \notin {"fill", "aborted"} =>
                \A i \in LocalCells(r) :
                    fgrid[r][i] = IF r = 0 /\ i = 0
                                  THEN Amplitude(Zero, Zero)
                                  ELSE MeanPhase(r, i)

-----------------------------------------------------------------------------
(***************************************************************************)
(* smoothing_filter_fourier_space(fourier_grid, smoothing_scale, method)   *)
(*                                                                         *)
(* With k = 2 pi j the square of kR is |j|^2 * smoothing_scale2.  A filter *)
(* value is either an exact rational or, for the exponential and the       *)
(* trigonometric kernels away from kR = 0, a named factor.                 *)
(***************************************************************************)

Methods == {"sharpk", "gaussian", "tophat", "boxcar"}

\* the smoothing scales: kR is 0 or at least 1/2 on every mode
ScaleInputs == {Zero, Frac(1, 4), RatOfInt(1)}

RatLess(p, q) == p[1] * q[2] < q[1] * p[2]

\* (k * smoothing_scale)^2 at local cell i of worker r
KR2(r, i) == RatMul(RatOfInt(Kmag2(r, i)), smoothing_scale2)

Exactly(q) == [exact |-> TRUE, value |-> q, name |-> <<>>]
Factor(kernel, kR2) ==
    [exact |-> FALSE, value |-> Zero, name |-> <<kernel, kR2[1], kR2[2]>>]

\* if(kR < 1.0) return 1.0; return 0.0;
filter_sharpk(kR2) ==
    IF RatLess(kR2, RatOfInt(1)) THEN Exactly(RatOfInt(1)) ELSE Exactly(Zero)

\* std::exp(-0.5*kR*kR)
filter_gaussian(kR2) ==
    IF RatIsZero(kR2) THEN Exactly(RatOfInt(1)) ELSE Factor("gaussian", kR2)

\* if(kR < 1e-5) return 1.0; return 2.0/(kR*kR) * (1.0 - std::cos(kR));
filter_tophat_2D(kR2) ==
    IF RatIsZero(kR2) THEN Exactly(RatOfInt(1)) ELSE Factor("tophat_2D", kR2)

\* the quotient alone, without the small-kR branch
filter_tophat_3D_NoThreshold(kR2) == Factor("tophat_3D", kR2)

\* if(kR < 1e-5) return 1.0;
\* return 3.0 * (std::sin(kR) - kR*std::cos(kR)) / (kR*kR*kR);
filter_tophat_3D(kR2) ==
    IF RatIsZero(kR2) THEN Exactly(RatOfInt(1)) ELSE Factor("tophat_3D", kR2)

\* every selector string and every dimension gets a filter
Selection_Unchecked == "filter"

\* "Select the filter": what the selection does with the call
Selection ==
    IF smoothing_method \in {"sharpk", "gaussian"} THEN "filter"
    ELSE IF smoothing_method = "tophat"
         THEN (IF Ndim = 2 \/ Ndim = 3 THEN "filter" ELSE "aborted")
         ELSE "runtime_error"

filter(kR2) ==
    IF smoothing_method = "sharpk" THEN filter_sharpk(kR2)
    ELSE IF smoothing_method = "gaussian" THEN filter_gaussian(kR2)
    ELSE IF Ndim = 2 THEN filter_tophat_2D(kR2)
    ELSE filter_tophat_3D(kR2)

\* value *= filter(kmag)
Multiplied(value, m) ==
    IF m.exact
    THEN [re |-> RatMul(value.re, m.value), im |-> RatMul(value.im, m.value),
          by |-> value.by]
    ELSE IF RatIsZero(value.re) /\ RatIsZero(value.im) THEN value
    ELSE [value EXCEPT !.by = Append(@, m.name)]

\* worker r runs the routine: the selection, then the loop over its cells
Smooth(r) ==
    /\ routine = "smoothing" /\ wpc[r] = "smooth"
    /\ IF Selection = "filter"
       THEN /\ fgrid' = [fgrid EXCEPT
                           ![r] = [i \in LocalCells(r) |->
                                     Multiplied(fgrid[r][i], filter(KR2(r, i)))]]
            /\ wpc' = [wpc EXCEPT ![r] = "returned"]
       ELSE /\ wpc' = [wpc EXCEPT ![r] = Selection]
            /\ UNCHANGED fgrid
    /\ UNCHANGED <<grid_status, Nmesh, Ndim, NTasks, Local_nx, field, bn, bkmin,
                   bkmax, pofk, ind, wsum, oplog, NumPartTotal, polyVars,
                   partVars, smoothVars, multVars, rsdVars, shellVars, extVars>>

InitSmoothIn(statuses) ==
    /\ IdleTuples("smoothing") /\ IdlePart
    /\ InitGrid(statuses)
    /\ fgrid = FieldGrid(field)
    /\ bn = 0 /\ bkmin = 0 /\ bkmax = 0
    /\ pofk = <<>> /\ ind = <<>> /\ wsum = <<>> /\ oplog = <<>>
    /\ NumPartTotal = 0
    /\ wpc = [r \in Ranks |-> "smooth"]
    /\ smoothing_method \in Methods
    /\ smoothing_scale2 \in ScaleInputs
    /\ IdleMult /\ IdleRsd
    /\ IdleShell /\ IdleExt

-----------------------------------------------------------------------------
(***************************************************************************)
(* The grid routines handed a grid whose status is REAL                    *)
(***************************************************************************)

InitRealGrid ==
    \/ InitBinUpIn({"REAL"})
    \/ InitSmoothIn({"REAL"})
    \/ /\ InitTuples("polyspectrum", Orders)
       /\ IdleGridIn("REAL") /\ IdleBin /\ IdlePart /\ IdleSmooth /\ IdleMult /\ IdleRsd
       /\ IdleShell /\ IdleExt
    \/ /\ InitTuples("bispectrum", {3})
       /\ IdleGridIn("REAL") /\ IdleBin /\ IdlePart /\ IdleSmooth /\ IdleMult /\ IdleRsd
       /\ IdleShell /\ IdleExt

NextRealGrid ==
    \/ \E r \in Ranks : BinUpEnter(r)
    \/ \E r \in Ranks : BinUpLoop(r)
    \/ Normalize
    \/ \E r \in Ranks : Smooth(r)
    \/ PolyTupleStep
    \/ PolyFillStep
    \/ BiTupleStep
    \/ BiFillStep
    \/ CopyResults

SpecRealGrid == InitRealGrid /\ [][NextRealGrid]_vars

C10_BinUpRejected ==
    \A r \in Ranks :
        /\ wpc[r] \in {"enter", "EStateMismatch"}
        /\ pofk[r] = StaleBinning(bn)
        /\ fgrid = FieldGrid(field)

C10_SmoothingRejected ==
    \A r \in Ranks :
        /\ wpc[r] \in {"smooth", "EStateMismatch"}
        /\ fgrid = FieldGrid(field)

C10_TuplesRejected == pc # "done" /\ result = NoResult

\* C10: called with a grid whose status is REAL, bin_up_power_spectrum,
\* compute_bispectrum, compute_polyspectrum and smoothing_filter_fourier_space
\* fail with EStateMismatch and modify neither the grid nor the binning.
C10_RealGridRejected ==
    grid_status = "REAL" =>
        /\ routine = "bin_up" => C10_BinUpRejected
        /\ routine = "smoothing" => C10_SmoothingRejected
        /\ routine \in {"polyspectrum", "bispectrum"} => C10_TuplesRejected

-----------------------------------------------------------------------------
(***************************************************************************)
(* compute_power_spectrum_multipoles(fourier_grid, Pell, los)              *)
(*                                                                         *)
(* With integer wavenumbers j and an integer line of sight l the cosine is *)
(* mu = (j.l) / sqrt(|j|^2 |l|^2), a rational times the square root of a   *)
(* squarefree integer.  A power of mu is held as such a monomial, a sum of *)
(* them as the vector of its rational coefficients on the square roots.    *)
(* The value 0/0 and everything computed from it is "nan".                 *)
(***************************************************************************)

MaxEll == 4

\* the largest s with s*s dividing n (n >= 1)
SquarePart(n) ==
    CHOOSE s \in 1 .. n :
        /\ n % (s * s) = 0
        /\ \A t \in s + 1 .. n : n % (t * t) # 0

Mono(coef, rad) ==
    IF RatIsZero(coef) THEN [nan |-> FALSE, coef |-> Zero, rad |-> 1]
    ELSE [nan |-> FALSE, coef |-> coef, rad |-> rad]
MonoOne == Mono(RatOfInt(1), 1)
MonoNaN == [nan |-> TRUE, coef |-> Zero, rad |-> 1]

\* a * b
MonoMul(a, b) ==
    IF a.nan \/ b.nan THEN MonoNaN
    ELSE LET n == a.rad * b.rad
             s == SquarePart(n)
         IN  Mono(RatMul(RatMul(a.coef, b.coef), RatOfInt(s)), n \div (s * s))

\* rnorm * rnorm
LosNorm2 == SumOver([d \in 1 .. Len(los) |-> los[d] * los[d]], 1 .. Len(los))

\* the radicands that occur for this grid and line of sight
Radicands ==
    LET most == Ndim * (Nmesh \div 2) * (Nmesh \div 2) * LosNorm2
    IN  {q \in 1 .. (IF most > 1 THEN most ELSE 1) : SquarePart(q) = 1}

NumNaN == [nan |-> TRUE, c |-> [q \in Radicands |-> Zero]]
NumOfRat(x) ==
    [nan |-> FALSE, c |-> [q \in Radicands |-> IF q = 1 THEN x ELSE Zero]]
NumAdd(x, y) ==
    IF x.nan \/ y.nan THEN NumNaN
    ELSE [nan |-> FALSE, c |-> [q \in Radicands |-> RatAdd(x.c[q], y.c[q])]]
NumOfMono(m) ==
    IF m.nan THEN NumNaN
    ELSE [nan |-> FALSE,
          c |-> [q \in Radicands |-> IF q = m.rad THEN m.coef ELSE Zero]]
\* x * f for a rational f
NumScale(x, f) ==
    IF x.nan THEN NumNaN
    ELSE [nan |-> FALSE, c |-> [q \in Radicands |-> RatMul(x.c[q], f)]]

\* mu: the sum of kvec[idim] * los[idim], divided by (kmag * rnorm)
Mu(r, i) ==
    LET c == FourierCoord(r, i)
        dot == SumOver([d \in Axes |-> WaveNumber(c[d]) * los[d + 1]], Axes)
        n == Kmag2(r, i) * LosNorm2
    IN  IF n = 0 THEN MonoNaN
        ELSE LET s == SquarePart(n)
             IN  Mono(Frac(dot * s, n), n \div (s * s))

\* Pell[ell].reset()
ResetMoments ==
    [pofk |-> [b \in PofkBins |-> NumOfRat(Zero)],
     count |-> [b \in PofkBins |-> Zero],
     kbin |-> [b \in PofkBins |-> NoModes]]

\* the arrays a binning of Pell holds before the call
StaleMoments ==
    [pofk |-> [b \in PofkBins |-> NumOfRat(RatOfInt(1))],
     count |-> [b \in PofkBins |-> RatOfInt(1)],
     kbin |-> [b \in PofkBins |-> [q \in K2s |-> RatOfInt(1)]]]

\* Pell[ell].add_to_bin(kmag, value, weight)
AddMoment(obj, k2, value, weight) ==
    LET b == BinOf(k2)
    IN  IF b = -1 THEN obj
        ELSE [pofk |-> [obj.pofk EXCEPT
                          ![b] = NumAdd(@, NumScale(NumOfMono(value),
                                                    RatOfInt(weight)))],
              count |-> [obj.count EXCEPT ![b] = RatAdd(@, RatOfInt(weight))],
              kbin |-> [obj.kbin EXCEPT ![b][k2] = RatAdd(@, RatOfInt(weight))]]

\* power * mutoell
TimesPower(power, m) ==
    IF m.nan THEN MonoNaN ELSE Mono(RatMul(power, m.coef), m.rad)

\* every mode handed to add_to_bin once
MomentWeight_Plain(i) == 1

\* double weight = last_coord > 0 && last_coord < Nmesh / 2 ? 2.0 : 1.0, in
\* the loop of compute_power_spectrum_multipoles
MomentWeight(i) ==
    LET last_coord == i % (Nmesh \div 2 + 1)
    IN  IF last_coord > 0 /\ last_coord < Nmesh \div 2 THEN 2 ELSE 1

\* the loop over ell for one Fourier cell: add_to_bin, then mutoell *= mu
RECURSIVE AddCellFrom(_, _, _, _, _)
AddCellFrom(P, r, i, ell, mutoell) ==
    IF ell >= nell THEN P
    ELSE LET added == [P EXCEPT ![ell] = AddMoment(@, Kmag2(r, i),
                                           TimesPower(Norm2(r, i), mutoell),
                                           MomentWeight(i))]
         IN  IF DOMAIN added = DOMAIN P
             THEN AddCellFrom(added, r, i, ell + 1, MonoMul(mutoell, Mu(r, i)))
             ELSE added

\* the iterations lo .. hi-1 of the loop over the local Fourier cells, the
\* first half of the range before the second
RECURSIVE MomentsLoopFrom(_, _, _, _)
MomentsLoopFrom(r, lo, hi, P) ==
    IF lo >= hi THEN P
    ELSE IF hi = lo + 1 THEN AddCellFrom(P, r, lo, 0, MonoOne)
         ELSE LET mid == (lo + hi) \div 2
                  first == MomentsLoopFrom(r, lo, mid, P)
              IN  IF DOMAIN first = DOMAIN P
                  THEN MomentsLoopFrom(r, mid, hi, first)
                  ELSE first

\* the asserts on Pell and the grid alone, the line of sight taken as it comes
MultipolesAccepted_AnyLos ==
    /\ nell > 0
    /\ Nmesh > 0

\* the asserts on the line of sight, Pell and the grid
MultipolesAccepted ==
    /\ Len(los) = Ndim
    /\ nell > 0
    /\ Nmesh > 0
    /\ LosNorm2 > 0

Ells == 0 .. nell - 1

\* worker r: the asserts, the reset of every Pell[ell], the loop over its cells
MpLocal(r) ==
    /\ routine = "multipoles" /\ wpc[r] = "enter"
    /\ IF MultipolesAccepted
       THEN /\ Pell' = [Pell EXCEPT
                          ![r] = MomentsLoopFrom(r, 0, NmeshTotLocal(r),
                                                 [ell \in Ells |-> ResetMoments])]
            /\ wpc' = [wpc EXCEPT ![r] = "allreduce"]
       ELSE /\ wpc' = [wpc EXCEPT ![r] = "aborted"]
            /\ UNCHANGED Pell
    /\ UNCHANGED <<los, nell, gridVars, bn, bkmin, bkmax, pofk, ind, wsum, oplog,
                   NumPartTotal, polyVars, partVars, smoothVars,
                   rsdVars, shellVars, extVars>>

RECURSIVE NumSumOver(_, _)
NumSumOver(f, S) ==
    IF S = {} THEN NumOfRat(Zero)
    ELSE LET x == CHOOSE y \in S : TRUE IN NumAdd(f[x], NumSumOver(f, S \ {x}))

\* MPI_Allreduce(MPI_IN_PLACE, ..., MPI_SUM, MPI_COMM_WORLD) of pofk and count
AllReduced(P) ==
    [ell \in Ells |->
        [pofk |-> [b \in PofkBins |->
                     NumSumOver([r \in Ranks |-> P[r][ell].pofk[b]], Ranks)],
         count |-> [b \in PofkBins |->
                     RatSumOver([r \in Ranks |-> P[r][ell].count[b]], Ranks)],
         kbin |-> [b \in PofkBins |-> [q \in K2s |->
                     RatSumOver([r \in Ranks |-> P[r][ell].kbin[b][q]], Ranks)]]]]

\* the explicit all-reduce of every Pell[ell]
MpAllreduce ==
    /\ routine = "multipoles" /\ NTasks > 0
    /\ \A r \in Ranks : wpc[r] = "allreduce"
    /\ Pell' = [r \in Ranks |-> AllReduced(Pell)]
    /\ wpc' = [r \in Ranks |-> "normalize"]
    /\ UNCHANGED <<los, nell, gridVars, bn, bkmin, bkmax, pofk, ind, wsum, oplog,
                   NumPartTotal, polyVars, partVars, smoothVars,
                   rsdVars, shellVars, extVars>>

\* the division of normalize(): pofk by count where count > 0
Divided(obj) ==
    [pofk |-> [b \in PofkBins |->
                 IF RatIsPos(obj.count[b])
                 THEN NumScale(obj.pofk[b], RatDiv(RatOfInt(1), obj.count[b]))
                 ELSE obj.pofk[b]],
     count |-> obj.count,
     kbin |-> [b \in PofkBins |-> [q \in K2s |->
                 IF RatIsPos(obj.count[b])
                 THEN RatDiv(obj.kbin[b][q], obj.count[b])
                 ELSE obj.kbin[b][q]]]]

\* Pell[ell].normalize() for every ell: all-reduce sum over the workers, then
\* the division
MpNormalize ==
    /\ routine = "multipoles" /\ NTasks > 0
    /\ \A r \in Ranks : wpc[r] = "normalize"
    /\ LET summed == AllReduced(Pell)
       IN  Pell' = [r \in Ranks |-> [ell \in Ells |-> Divided(summed[ell])]]
    /\ wpc' = [r \in Ranks |-> "project"]
    /\ UNCHANGED <<los, nell, gridVars, bn, bkmin, bkmax, pofk, ind, wsum, oplog,
                   NumPartTotal, polyVars, partVars, smoothVars,
                   rsdVars, shellVars, extVars>>

\* res *= double(n - i) / double(k - i) for i = 0 .. k-1
RECURSIVE BinomialFrom(_, _, _, _)
BinomialFrom(n, k, i, res) ==
    IF i >= k THEN res
    ELSE BinomialFrom(n, k, i + 1, RatMul(res, Frac(n - i, k - i)))

binomial(n, k) == BinomialFrom(n, k, 0, RatOfInt(1))

\* sign * binomial(ell, k) * binomial(2 * ell - 2 * k, ell) / std::pow(2.0, ell)
summand_legendre_polynomial(k, ell) ==
    LET sign == IF k % 2 = 0 THEN 1 ELSE -1
    IN  RatDiv(RatMul(RatMul(RatOfInt(sign), binomial(ell, k)),
                      binomial(2 * ell - 2 * k, ell)),
               RatOfInt(Power(2, ell)))

\* the projection reads the moments of an ell's own pofk after earlier ells
\* have been overwritten
RECURSIVE LegendreSum_InPlace(_, _, _, _)
LegendreSum_InPlace(P, ell, b, k) ==
    IF k > ell \div 2 THEN NumOfRat(Zero)
    ELSE LET src == IF k = 0 THEN P[ell].pofk[b]
                    ELSE LegendreSum_InPlace(P, ell - 2 * k, b, 0)
         IN  NumAdd(NumScale(src, summand_legendre_polynomial(k, ell)),
                    LegendreSum_InPlace(P, ell, b, k + 1))

\* sum[i] += mu_power[i] * summand_legendre_polynomial(k, ell), for k from the
\* given one up to ell / 2, with mu_power = Pell[ell - 2 * k].pofk
RECURSIVE LegendreSum(_, _, _, _)
LegendreSum(P, ell, b, k) ==
    IF k > ell \div 2 THEN NumOfRat(Zero)
    ELSE NumAdd(NumScale(P[ell - 2 * k].pofk[b],
                         summand_legendre_polynomial(k, ell)),
                LegendreSum(P, ell, b, k + 1))

\* every ell projected on the spot, so that a higher ell reads projected values
Projected_InPlace(P, ell, b) == LegendreSum_InPlace(P, ell, b, 0)

\* temp[ell][i]: the sum built from the pofk arrays as the normalisation left them
Projected(P, ell, b) == LegendreSum(P, ell, b, 0)

\* worker r: temp[ell] for every ell, then Pell[ell].pofk = temp[ell]
MpProject(r) ==
    /\ routine = "multipoles" /\ wpc[r] = "project"
    /\ Pell' = [Pell EXCEPT
                  ![r] = [ell \in Ells |->
                            [pofk |-> [b \in PofkBins |->
                                         Projected(Pell[r], ell, b)],
                             count |-> Pell[r][ell].count,
                             kbin |-> Pell[r][ell].kbin]]]
    /\ wpc' = [wpc EXCEPT ![r] = "returned"]
    /\ UNCHANGED <<los, nell, gridVars, bn, bkmin, bkmax, pofk, ind, wsum, oplog,
                   NumPartTotal, polyVars, partVars, smoothVars,
                   rsdVars, shellVars, extVars>>

\* the lines of sight the routine is handed: the zero vector, an axis, a
\* diagonal, and one more component than the grid has dimensions
LosInputs ==
    { [d \in 1 .. Ndim |-> 0],
      [d \in 1 .. Ndim |-> IF d = Ndim THEN -2 ELSE 0],
      [d \in 1 .. Ndim |-> 1],
      [d \in 1 .. Ndim + 1 |-> 1] }

InitMultIn(statuses) ==
    /\ IdleTuples("multipoles") /\ IdlePart /\ IdleSmooth /\ IdleRsd
    /\ IdleShell /\ IdleExt
    /\ InitGrid(statuses)
    /\ fgrid = FieldGrid(field)
    /\ \E b \in Binnings : bn = b[1] /\ bkmin = b[2] /\ bkmax = b[3]
    /\ pofk = <<>> /\ ind = <<>> /\ wsum = <<>> /\ oplog = <<>>
    /\ NumPartTotal = 0
    /\ wpc = [r \in Ranks |-> "enter"]
    /\ los \in LosInputs
    /\ nell \in {0, 1, MaxEll + 1}
    /\ Pell = [r \in Ranks |-> [ell \in Ells |-> StaleMoments]]

InitMult == InitMultIn({"FOURIER"})

NextMult ==
    \/ \E r \in Ranks : MpLocal(r)
    \/ MpAllreduce
    \/ MpNormalize
    \/ \E r \in Ranks : MpProject(r)

SpecMult == InitMult /\ [][NextMult]_vars

\* ---- C11 ----
BadLineOfSight == Len(los) # Ndim \/ LosNorm2 = 0

\* C11: compute_power_spectrum_multipoles(grid, Pell, los) handed a line of
\* sight whose length differs from the dimension, or whose norm is zero, stops
\* at its asserts: no worker gets past them, every binning of Pell still holds
\* the arrays it held before the call, and the grid is the one handed in.
C11_BadLosRejected ==
    (routine = "multipoles" /\ BadLineOfSight) =>
        /\ \A r \in Ranks :
              /\ wpc[r] \in {"enter", "aborted"}
              /\ Pell[r] = [ell \in Ells |-> StaleMoments]
        /\ fgrid = FieldGrid(field)

\* C11 witness: a worker has stopped on a bad line of sight although Pell and
\* the grid would have been accepted
C11_Witness ==
    /\ routine = "multipoles" /\ BadLineOfSight
    /\ nell > 0
    /\ \E r \in Ranks : wpc[r] = "aborted"

\* ---- C12 ----
\* C12: compute_power_spectrum_multipoles(grid) handed binnings with n_b <= 0,
\* k_max <= k_min or k_min < 0 stops before any binning of Pell is reset and
\* before any mode is added: no worker gets past the asserts and every binning
\* of Pell still holds the arrays it held before the call.
C12_BadBinningRejected ==
    (routine = "multipoles" /\ ~BinningConsistent) =>
        \A r \in Ranks :
            /\ wpc[r] \in {"enter", "aborted"}
            /\ Pell[r] = [ell \in Ells |-> StaleMoments]

-----------------------------------------------------------------------------
(***************************************************************************)
(* smoothing_filter_fourier_space on a grid in Fourier space               *)
(***************************************************************************)

\* the template parameter N the routine is instantiated with
SmoothDims == Dims \cup {4}

\* the selector strings handed in: the three filters and strings that are not
\* exactly one of them
SmoothMethods == Methods \cup {"Gaussian", ""}

InitSmooth ==
    /\ IdleTuples("smoothing") /\ IdlePart /\ IdleMult /\ IdleRsd
    /\ IdleShell /\ IdleExt
    /\ grid_status = "FOURIER"
    /\ Ndim \in SmoothDims
    /\ Nmesh \in 1 .. MaxMesh
    /\ NTasks \in 1 .. MaxTasks
    /\ Local_nx \in Slabs(Nmesh, NTasks)
    /\ field \in Fields
    /\ fgrid = FieldGrid(field)
    /\ bn = 0 /\ bkmin = 0 /\ bkmax = 0
    /\ pofk = <<>> /\ ind = <<>> /\ wsum = <<>> /\ oplog = <<>>
    /\ NumPartTotal = 0
    /\ wpc = [r \in Ranks |-> "smooth"]
    /\ smoothing_method \in SmoothMethods
    /\ smoothing_scale2 \in ScaleInputs

NextSmooth == \E r \in Ranks : Smooth(r)

SpecSmooth == InitSmooth /\ [][NextSmooth]_vars

\* ---- C13 ----
\* C13: smoothing_filter_fourier_space settles the selector before it touches
\* the grid: with a string other than exactly "sharpk", "gaussian" or "tophat"
\* a worker ends in the runtime error, with "tophat" in a dimension other than
\* 2 and 3 it ends in the failed assert, and in both cases every Fourier
\* amplitude of the grid is the one handed in.
C13_SelectorChecked ==
    LET unknown == smoothing_method \notin {"sharpk", "gaussian", "tophat"}
        baddim == smoothing_method = "tophat" /\ Ndim \notin {2, 3}
    IN  (routine = "smoothing" /\ (unknown \/ baddim)) =>
            /\ fgrid = FieldGrid(field)
            /\ \A r \in Ranks :
                  wpc[r] \in {"smooth", IF unknown THEN "runtime_error" ELSE "aborted"}

\* C13 witness: on a grid that smoothing would change, one worker has failed on
\* an unknown selector or every worker has failed on the top-hat's dimension
C13_Witness ==
    /\ routine = "smoothing" /\ field = "flat" /\ Nmesh > 1
    /\ ~RatIsZero(smoothing_scale2)
    /\ \/ smoothing_method = "Gaussian" /\ \E r \in Ranks : wpc[r] = "runtime_error"
       \/ /\ smoothing_method = "tophat" /\ Ndim = 4
          /\ \A r \in Ranks : wpc[r] = "aborted"

\* ---- C14 ----
\* C14: for every filter and every smoothing scale R >= 0 the multiplier of a
\* mode with kR = 0 is exactly 1: after smoothing_filter_fourier_space a worker
\* holds at every cell with kR = 0 (the k = 0 cell, and every cell when R = 0)
\* the amplitude that was handed in.
C14_UnitAtZero ==
    (routine = "smoothing") =>
        \A r \in Ranks :
            wpc[r] = "returned" =>
                /\ filter(Zero) = Exactly(RatOfInt(1))
                /\ \A i \in LocalCells(r) :
                      RatIsZero(KR2(r, i)) => fgrid[r][i] = FieldCell(field, r, i)

\* C14 witness: the three-dimensional top-hat with R > 0 has run on a grid
\* whose k = 0 amplitude is not zero and has changed another amplitude
C14_Witness ==
    /\ routine = "smoothing" /\ smoothing_method = "tophat" /\ Ndim = 3
    /\ ~RatIsZero(smoothing_scale2) /\ field = "flat"
    /\ wpc[0] = "returned"
    /\ \E i \in LocalCells(0) : Kmag2(0, i) = 0
    /\ \E i \in LocalCells(0) : fgrid[0][i] # FieldCell(field, 0, i)

-----------------------------------------------------------------------------
(***************************************************************************)
(* compute_power_spectrum_multipoles(Ngrid, part, velocity_to_displacement,*)
(* Pell, density_assignment_method): the particle positions                *)
(*                                                                         *)
(* Coordinates are held in ticks as for the interlacing; a velocity v and  *)
(* the factor kappa displace a coordinate by v * kappa ticks.              *)
(***************************************************************************)

\* the velocities a particle is given along every axis, in ticks
VelInputs == {-Ticks, -1, 0, Ticks \div 2}

\* the caller's velocity_to_displacement factors
FactorInputs == {0, 1, 3}

\* the positions a particle is given: the two ends of the box
RsdPosInputs == {[d \in Axes |-> a] : a \in {0, Ticks - 1}}

\* if(pos[idim] < 0.0) pos[idim] += 1.0; if(pos[idim] >= 1.0) pos[idim] -= 1.0;
PeriodicOnce(x) ==
    LET up == IF x < 0 THEN x + Ticks ELSE x
    IN  IF up >= Ticks THEN up - Ticks ELSE up

\* vdotr with the unit line of sight along dir is vel[dir];
\* pos[idim] += sign * vdotr * line_of_sight_direction[idim] * factor, wrapped
Displaced(x, v, sign) ==
    [d \in Axes |->
        PeriodicOnce(x[d] + sign * v[dir] * (IF d = dir THEN 1 ELSE 0)
                                 * velocity_to_displacement)]

\* the loop "Displace particles"
RsdDisplace ==
    /\ routine = "rsd_multipoles" /\ ipc = "displace"
    /\ pos' = [i \in Particles |-> Displaced(pos[i], vel[i], 1)]
    /\ ipc' = "scatter"
    /\ UNCHANGED <<NumPart, pos0, scattered, vel, velocity_to_displacement, dir,
                   polyVars, gridVars, binVars, smoothVars, multVars,
                   shellVars, extVars>>

\* part.communicate_particles(); particles_to_grid(part, ..., density_k, ...)
RsdScatter ==
    /\ routine = "rsd_multipoles" /\ ipc = "scatter"
    /\ scattered' = Append(scattered, pos)
    /\ ipc' = "displace_back"
    /\ UNCHANGED <<NumPart, pos, pos0, vel, velocity_to_displacement, dir,
                   polyVars, gridVars, binVars, smoothVars, multVars,
                   shellVars, extVars>>

\* the second loop "Displace particles" and part.communicate_particles()
RsdDisplaceBack ==
    /\ routine = "rsd_multipoles" /\ ipc = "displace_back"
    /\ pos' = [i \in Particles |-> Displaced(pos[i], vel[i], -1)]
    /\ ipc' = "transform"
    /\ UNCHANGED <<NumPart, pos0, scattered, vel, velocity_to_displacement, dir,
                   polyVars, gridVars, binVars, smoothVars, multVars,
                   shellVars, extVars>>

\* the transform, the deconvolution and the multipoles of density_k, none of
\* which is handed the particles; then the next axis
RsdRest ==
    /\ routine = "rsd_multipoles" /\ ipc = "transform"
    /\ grid_status' = StatusAfterForward("REAL")
    /\ dir' = IF dir + 1 < Ndim THEN dir + 1 ELSE dir
    /\ ipc' = IF dir + 1 < Ndim THEN "displace" ELSE "done"
    /\ UNCHANGED <<NumPart, pos, pos0, scattered, vel, velocity_to_displacement,
                   polyVars, Nmesh, Ndim, NTasks, Local_nx, field, fgrid,
                   binVars, smoothVars, multVars,
                   shellVars, extVars>>

InitRsd ==
    /\ IdleTuples("rsd_multipoles") /\ IdleBin /\ IdleSmooth /\ IdleMult /\ IdleShell /\ IdleExt
    /\ grid_status = "REAL" /\ Nmesh \in 1 .. MaxMesh /\ Ndim \in Dims
    /\ NTasks = 1 /\ Local_nx = [r \in {0} |-> Nmesh] /\ field = "none"
    /\ fgrid = NoGrid
    /\ NumPart \in 1 .. MaxPart
    /\ pos \in [Particles -> RsdPosInputs]
    /\ pos0 = pos
    /\ scattered = <<>>
    /\ vel \in [Particles -> {[d \in Axes |-> v] : v \in VelInputs}]
    /\ velocity_to_displacement \in FactorInputs
    /\ dir = 0
    /\ ipc = "displace"

NextRsd == RsdDisplace \/ RsdScatter \/ RsdDisplaceBack \/ RsdRest

SpecRsd == InitRsd /\ [][NextRsd]_vars

\* ---- C16 ----
\* C16: in the particle-based compute_power_spectrum_multipoles, whatever the
\* velocities and the velocity_to_displacement factor, every coordinate of
\* every particle lies in [0,1) when the particles are communicated and
\* scattered to the grid.
C16_ScatteredInBox ==
    (routine = "rsd_multipoles") =>
        \A s \in 1 .. Len(scattered) : \A i \in Particles : \A d \in Axes :
            0 <= scattered[s][i][d] /\ scattered[s][i][d] < Ticks

-----------------------------------------------------------------------------
\* ---- C15 ----
\* every shell holds modes (N_k = 1 on the real cells) of an identically zero
\* field
ZeroFieldShells ==
    \A i \in Bins : F_k[i] = <<0, 0>> /\ N_k[i] = <<1, 1>> /\ pofk_bin[i] = 0

\* C15: with an identically zero Fourier field compute_bispectrum returns
\* B123 = 0 and pofk = 0 in every tuple and bin, and a count N123 that is
\* positive in every tuple.
C15_ZeroFieldPositiveCounts ==
    (routine = "bispectrum" /\ pc = "done" /\ ZeroFieldShells) =>
        /\ \A j \in Flat : RatIsZero(result.P123[j]) /\ RatIsPos(result.N123[j])
        /\ \A i \in Bins : result.pofk[i] = 0

-----------------------------------------------------------------------------
\* ---- C20 ----
\* the n-1 smallest bin centres of the tuple at flat index i sum to less than
\* the largest minus n * deltak / 2
NoPolygon(i) ==
    LET ik == SortAsc(DecodeMSF(i))
        ks == SumOver([a \in 0 .. order - 2 |-> k_bin4(ik[a])], 0 .. order - 2)
    IN  2 * ks < 2 * k_bin4(ik[order - 1]) - order * deltak4

\* C20: in compute_polyspectrum a tuple of bins with no closable polygon gets
\* P123 = 0 and N123 = 0 right away: once the tuple loop is over, no real-space
\* sum has been evaluated for it and both of its entries are zero.
C20_NoPolygonSkipped ==
    (routine = "polyspectrum" /\ pc # "tuples") =>
        \A i \in Flat :
            NoPolygon(i) =>
                /\ i \notin evaluated
                /\ RatIsZero(P123[i]) /\ RatIsZero(N123[i])

-----------------------------------------------------------------------------
\* ---- C17 ----
\* the binomial coefficient by Pascal's rule
RECURSIVE Choose(_, _)
Choose(n, k) ==
    IF k < 0 \/ k > n THEN 0
    ELSE IF k = 0 \/ k = n THEN 1
    ELSE Choose(n - 1, k - 1) + Choose(n - 1, k)

\* c(ell, m) = (-1)^m C(ell, m) C(2 ell - 2 m, ell) / 2^ell
LegendreCoefficient(ell, m) ==
    Frac((IF m % 2 = 0 THEN 1 ELSE -1) * Choose(ell, m) * Choose(2 * ell - 2 * m, ell),
         Power(2, ell))

\* sum over m = from .. floor(ell/2) of c(ell, m) * M[ell - 2m][b]
RECURSIVE LegendreOfMoments(_, _, _, _)
LegendreOfMoments(M, ell, b, from) ==
    IF from > ell \div 2 THEN NumOfRat(Zero)
    ELSE NumAdd(NumScale(M[ell - 2 * from].pofk[b], LegendreCoefficient(ell, from)),
                LegendreOfMoments(M, ell, b, from + 1))

\* C17: the projection step of compute_power_spectrum_multipoles(grid) leaves
\* in Pell[ell].pofk[i], for every ell and every bin i, the sum over m of
\* c(ell, m) * M_(ell-2m)[i], where M_j are the normalised raw moments held
\* before the step (never an already projected value): P_0 = M_0, P_1 = M_1,
\* P_2 = (3 M_2 - M_0) / 2; the counts are left alone.
C17_LegendreOfRawMoments ==
    [][\A r \in Ranks :
          (routine = "multipoles" /\ wpc[r] = "project" /\ wpc'[r] = "returned") =>
              \A ell \in Ells : \A b \in PofkBins :
                  /\ Pell'[r][ell].pofk[b] = LegendreOfMoments(Pell[r], ell, b, 0)
                  /\ Pell'[r][ell].count[b] = Pell[r][ell].count[b]
                  /\ ell = 0 => Pell'[r][0].pofk[b] = Pell[r][0].pofk[b]
                  /\ ell = 1 => Pell'[r][1].pofk[b] = Pell[r][1].pofk[b]
                  /\ ell = 2 =>
                        Pell'[r][2].pofk[b] =
                            NumScale(NumAdd(NumScale(Pell[r][2].pofk[b], RatOfInt(3)),
                                            NumScale(Pell[r][0].pofk[b], RatOfInt(-1))),
                                     Frac(1, 2))]_vars

\* C17 witness: a worker has returned with the multipoles up to MaxEll, and a
\* bin holds a defined hexadecapole and a quadrupole that differs from the
\* monopole (so the raw second moment was not the raw zeroth one)
C17_Witness ==
    /\ routine = "multipoles" /\ nell = MaxEll + 1
    /\ wpc[0] = "returned"
    /\ \E b \in PofkBins :
          /\ RatIsPos(Pell[0][0].count[b])
          /\ ~Pell[0][MaxEll].pofk[b].nan
          /\ Pell[0][2].pofk[b] # Pell[0][0].pofk[b]
          /\ Pell[0][2].pofk[b] # NumOfRat(Zero)

-----------------------------------------------------------------------------
(***************************************************************************)
(* compute_bispectrum / compute_polyspectrum: the loop over the shells     *)
(*                                                                         *)
(* The two routines share this part line by line.  The bin centres are in  *)
(* units of 2 pi, as the wavenumbers of the grid.  F_k[i] and N_k[i] are   *)
(* records of the status of the copy and of its Fourier cells; the inverse *)
(* transform is kept as the change of status of the copy, the cells being  *)
(* the ones it was handed.  The sum of |k| over a shell is held as the     *)
(* number of modes at every |k|^2.  The tuple and fill loops that follow   *)
(* the shells are the subject of the specifications above and are left out *)
(* here: they write none of k_bin, kmean_bin and pofk_bin.                 *)
(***************************************************************************)

\* the upper edge taken into the shell as well
InShell_Closed(i, k2) ==
    ~(16 * k2 > khigh4(i) * khigh4(i) \/ 16 * k2 < klow4(i) * klow4(i))

\* the else branch of if(kmag2 >= kmag2_max or kmag2 < kmag2_min)
InShell(i, k2) ==
    ~(16 * k2 >= khigh4(i) * khigh4(i) \/ 16 * k2 < klow4(i) * klow4(i))

\* F_k[i] = density_k; N_k[i] = density_k; N_k[i].fill_fourier_grid(0.0);
ShellSetup ==
    /\ routine \in {"bispectrum", "polyspectrum"} /\ pc = "setup"
    /\ F_k' = [i \in Bins |-> [status |-> grid_status, grid |-> fgrid]]
    /\ N_k' = [i \in Bins |->
                 [status |-> grid_status,
                  grid |-> [r \in Ranks |->
                              [c \in LocalCells(r) |-> Amplitude(Zero, Zero)]]]]
    /\ pc' = "shells"
    /\ UNCHANGED <<routine, order, nbins, kcentre, pofk_bin, idx, P123, N123,
                   evaluated, skipped, result>>
    /\ UNCHANGED <<gridVars, binVars, partVars, smoothVars, multVars, rsdVars,
                   shellVars, extVars>>

\* every shell standing on the storage of shell i
SetCells_Shared(G, i, r, g) ==
    [j \in DOMAIN G |-> [G[j] EXCEPT !.grid[r] = g]]

\* FFTWGrid<N> & grid = F_k[i]; grid.set_fourier_from_index(...) over the cells
\* of worker r: the cells of copy i of the vector G become g
SetCells(G, i, r, g) ==
    [G EXCEPT ![i].grid[r] = g]

\* worker r: the loop over its cells for shell idx
ShellMask(r) ==
    /\ routine \in {"bispectrum", "polyspectrum"} /\ pc = "shells"
    /\ wpc[r] = "mask"
    /\ LET in(c) == InShell(idx, Kmag2(r, c))
           inside == {c \in LocalCells(r) : in(c)}
           g == F_k[idx].grid[r]
       IN  /\ F_k' = SetCells(F_k, idx, r,
                        [c \in LocalCells(r) |->
                            IF in(c) THEN g[c] ELSE Amplitude(Zero, Zero)])
           /\ N_k' = SetCells(N_k, idx, r,
                        [c \in LocalCells(r) |->
                            IF in(c) THEN Amplitude(RatOfInt(1), Zero)
                            ELSE Amplitude(Zero, Zero)])
           /\ acc' = [acc EXCEPT ![r] =
                        [hist |-> [q \in K2s |->
                                     Cardinality({c \in inside : Kmag2(r, c) = q})],
                         pofk |-> RatSumRange(
                                     [c \in LocalCells(r) |->
                                         IF in(c)
                                         THEN RatAdd(RatMul(g[c].re, g[c].re),
                                                     RatMul(g[c].im, g[c].im))
                                         ELSE Zero],
                                     0, NmeshTotLocal(r) - 1),
                         nk |-> Cardinality(inside)]]
    /\ wpc' = [wpc EXCEPT ![r] = "allreduce"]
    /\ UNCHANGED <<routine, order, nbins, kcentre, pofk_bin, pc, idx, P123, N123,
                   evaluated, skipped, result, kmean_bin>>
    /\ UNCHANGED <<gridVars, bn, bkmin, bkmax, pofk, ind, wsum, oplog, NumPartTotal,
                   partVars, smoothVars, multVars, rsdVars, extVars>>

\* the three MPI_Allreduce, kmean_bin[i] and pofk_bin[i], and the two
\* fftw_c2r of shell idx; then the next shell
ShellReduce ==
    /\ routine \in {"bispectrum", "polyspectrum"} /\ pc = "shells"
    /\ \A r \in Ranks : wpc[r] = "allreduce"
    /\ LET nk == SumOver([r \in Ranks |-> acc[r].nk], Ranks)
           kmean == [q \in K2s |-> SumOver([r \in Ranks |-> acc[r].hist[q]], Ranks)]
           psum == RatSumOver([r \in Ranks |-> acc[r].pofk], Ranks)
       IN  /\ kmean_bin' = [kmean_bin EXCEPT ![idx] =
                              IF nk = 0
                              THEN [midpoint |-> TRUE, k4 |-> k_bin4(idx),
                                    hist |-> kmean, nk |-> nk]
                              ELSE [midpoint |-> FALSE, k4 |-> 0,
                                    hist |-> kmean, nk |-> nk]]
           /\ pofk_bin' = [pofk_bin EXCEPT ![idx] =
                             IF nk = 0 THEN Zero ELSE RatDiv(psum, RatOfInt(nk))]
    /\ F_k' = [F_k EXCEPT ![idx].status = "REAL"]
    /\ N_k' = [N_k EXCEPT ![idx].status = "REAL"]
    /\ wpc' = [r \in Ranks |-> "mask"]
    /\ idx' = IF idx + 1 < nbins THEN idx + 1 ELSE 0
    /\ pc' = IF idx + 1 < nbins THEN "shells" ELSE "copy"
    /\ UNCHANGED <<routine, order, nbins, kcentre, P123, N123, evaluated, skipped,
                   result, acc>>
    /\ UNCHANGED <<gridVars, bn, bkmin, bkmax, pofk, ind, wsum, oplog, NumPartTotal,
                   partVars, smoothVars, multVars, rsdVars, extVars>>

NoAcc == [hist |-> <<>>, pofk |-> Zero, nk |-> 0]

\* the fields of the shell specification: "ramp" has an amplitude that grows
\* along the packed axis, so that the power differs between the planes of a
\* shell
ShellFields == Fields \cup {"ramp"}

InitShell ==
    /\ routine \in {"bispectrum", "polyspectrum"}
    /\ order = 3
    /\ nbins \in 2 .. MaxBins
    /\ kcentre \in KShapes(nbins)
    /\ F_k = <<>> /\ N_k = <<>>
    /\ pofk_bin = [i \in Bins |-> Zero]
    /\ pc = "setup" /\ idx = 0
    /\ P123 = <<>> /\ N123 = <<>> /\ evaluated = {} /\ skipped = {}
    /\ result = NoResult
    /\ grid_status = "FOURIER"
    /\ Ndim \in Dims
    /\ Nmesh \in 1 .. MaxMesh
    /\ NTasks \in 1 .. MaxTasks
    /\ Local_nx \in Slabs(Nmesh, NTasks)
    /\ field \in ShellFields
    /\ fgrid = FieldGrid(field)
    /\ bn = 0 /\ bkmin = 0 /\ bkmax = 0
    /\ pofk = <<>> /\ ind = <<>> /\ wsum = <<>> /\ oplog = <<>>
    /\ NumPartTotal = 0
    /\ wpc = [r \in Ranks |-> "mask"]
    /\ acc = [r \in Ranks |-> NoAcc]
    /\ kmean_bin = [i \in Bins |->
                      [midpoint |-> TRUE, k4 |-> 0, hist |-> <<>>, nk |-> 0]]
    /\ IdlePart /\ IdleSmooth /\ IdleMult /\ IdleRsd /\ IdleExt

NextShell ==
    \/ ShellSetup
    \/ \E r \in Ranks : ShellMask(r)
    \/ ShellReduce
    \/ CopyResults

SpecShell == InitShell /\ [][NextShell]_vars

-----------------------------------------------------------------------------
\* Properties of the shells

\* k_lo_i <= |k| < k_hi_i, compared on |k|^2
HalfOpen(i, k2) ==
    klow4(i) * klow4(i) <= 16 * k2 /\ 16 * k2 < khigh4(i) * khigh4(i)

\* the owned modes (worker, cell) of the whole grid that lie in shell i
ShellModes(i) ==
    {m \in UNION {{<<r, c>> : c \in LocalCells(r)} : r \in Ranks} :
        HalfOpen(i, Kmag2(m[1], m[2]))}

\* the sum of F(r, c) over the modes <<r, c>> of S, worker by worker and
\* cell by cell
SumOfModes(F(_, _), S) ==
    SumRange([r \in Ranks |->
                SumRange([c \in LocalCells(r) |->
                            IF <<r, c>> \in S THEN F(r, c) ELSE 0],
                         0, NmeshTotLocal(r) - 1)],
             0, NTasks - 1)

RatSumOfModes(F(_, _), S) ==
    RatSumRange([r \in Ranks |->
                   RatSumRange([c \in LocalCells(r) |->
                                  IF <<r, c>> \in S THEN F(r, c) ELSE Zero],
                               0, NmeshTotLocal(r) - 1)],
                0, NTasks - 1)

\* the integer square root of a perfect square, -1 otherwise
RootOf(q) ==
    IF \E s \in 0 .. q : s * s = q THEN CHOOSE s \in 0 .. q : s * s = q ELSE -1

\* x4 / 4 is the mean |k| of the modes S: square roots of integers that are
\* not perfect squares are irrational and cannot cancel in a sum of them
MeanKIs(S, x4) ==
    /\ \A m \in S : RootOf(Kmag2(m[1], m[2])) >= 0
    /\ 4 * SumOfModes(LAMBDA r, c : RootOf(Kmag2(r, c)), S) = Cardinality(S) * x4

\* |delta|^2 of the input grid at cell c of worker r
CellPower(r, c) ==
    LET a == fgrid[r][c]
    IN  RatAdd(RatMul(a.re, a.re), RatMul(a.im, a.im))

\* the mean |delta|^2 of the modes S of the input grid
MeanPower(S) ==
    RatDiv(RatSumOfModes(CellPower, S), RatOfInt(Cardinality(S)))

\* ---- C18 ----
\* C18: after compute_bispectrum and compute_polyspectrum, the returned kbin[i]
\* of a shell holding at least one mode is the mean |k| of its modes over all
\* workers and the bin midpoint for a shell with no modes; the returned pofk[i]
\* is the mean |delta|^2 of the shell, 0 for an empty shell.
C18_ReturnsShellMeans ==
    (routine \in {"bispectrum", "polyspectrum"} /\ pc = "done") =>
        \A i \in Bins :
            IF ShellModes(i) = {}
            THEN result.kbin[i] = k_bin4(i) /\ result.pofk[i] = Zero
            ELSE /\ MeanKIs(ShellModes(i), result.kbin[i])
                 /\ result.pofk[i] = MeanPower(ShellModes(i))

\* ---- C19 ----
\* the masking of shell i is complete on worker r
Masked(i, r) ==
    /\ pc \in {"shells", "copy", "done"}
    /\ pc = "shells" => (i < idx \/ (i = idx /\ wpc[r] = "allreduce"))

\* C19: in compute_bispectrum and compute_polyspectrum, for every shell i and
\* every owned Fourier mode, once the loop over the cells is through: a mode
\* with k_lo_i <= |k| < k_hi_i (half-open, compared on |k|^2) has F_i(k) equal
\* to the input amplitude and N_i(k) = 1, any other mode has F_i(k) = 0 and
\* N_i(k) = 0; the copy is in Fourier space until the masking is complete.
C19_ShellMasks ==
    (routine \in {"bispectrum", "polyspectrum"}) =>
        \A i \in Bins : \A r \in Ranks :
            Masked(i, r) =>
                /\ \A c \in LocalCells(r) :
                      IF HalfOpen(i, Kmag2(r, c))
                      THEN /\ F_k[i].grid[r][c] = fgrid[r][c]
                           /\ N_k[i].grid[r][c] = Amplitude(RatOfInt(1), Zero)
                      ELSE /\ F_k[i].grid[r][c] = Amplitude(Zero, Zero)
                           /\ N_k[i].grid[r][c] = Amplitude(Zero, Zero)
                /\ (pc = "shells" /\ i = idx) => F_k[i].status = "FOURIER"

\* C19 witness: a worker is through the cells of a shell, not yet transformed,
\* that kept a nonzero amplitude and zeroed another one sitting exactly on its
\* upper edge
C19_Witness ==
    /\ routine \in {"bispectrum", "polyspectrum"} /\ pc = "shells"
    /\ \E r \in Ranks :
          /\ wpc[r] = "allreduce"
          /\ \E c \in LocalCells(r) :
                /\ HalfOpen(idx, Kmag2(r, c))
                /\ F_k[idx].grid[r][c] # Amplitude(Zero, Zero)
          /\ \E c \in LocalCells(r) :
                /\ 16 * Kmag2(r, c) = khigh4(idx) * khigh4(idx)
                /\ fgrid[r][c] # Amplitude(Zero, Zero)
                /\ F_k[idx].grid[r][c] = Amplitude(Zero, Zero)

-----------------------------------------------------------------------------
\* ---- C21 ----
\* the owned modes (worker, cell) of the whole grid
OwnedModes == UNION {{<<r, c>> : c \in LocalCells(r)} : r \in Ranks}

\* the sum over all workers of the weights of their owned modes in bin b
WeightInBin(b) ==
    LET S == {m \in OwnedModes : BinOf(Kmag2(m[1], m[2])) = b}
    IN  SumOver([m \in S |-> Weight(m[2])], S)

\* C21: after compute_power_spectrum_multipoles(grid, Pell, los) on P >= 1
\* workers, for every ell and every bin i, Pell[ell].count[i] is the sum over
\* all workers of the weights of their owned modes in bin i, whatever P: the
\* accumulated arrays are summed over the workers exactly once.
C21_CountsReducedOnce ==
    (routine = "multipoles" /\ BinningConsistent) =>
        \A r \in Ranks :
            wpc[r] = "returned" =>
                \A ell \in Ells : \A b \in PofkBins :
                    Pell[r][ell].count[b] = RatOfInt(WeightInBin(b))

\* ---- C22 ----
\* C22: compute_bispectrum and compute_polyspectrum leave the input Fourier
\* grid unchanged in content and status; the masking and the inverse transform
\* of shell i act on the copies F_k[i] and N_k[i] only, the copies of every
\* other shell j # i stay as they were.
C22_InputAndOtherShellsKept ==
    [][(routine \in {"bispectrum", "polyspectrum"}) =>
          /\ fgrid' = fgrid /\ grid_status' = grid_status
          /\ pc = "shells" =>
                \A j \in Bins \ {idx} : F_k'[j] = F_k[j] /\ N_k'[j] = N_k[j]]_vars

\* C22 witness: the first shell is through, it zeroed a nonzero amplitude that
\* the input grid and the untouched copy of the next shell still hold
C22_Witness ==
    /\ routine \in {"bispectrum", "polyspectrum"} /\ pc = "shells" /\ idx = 1
    /\ grid_status = "FOURIER" /\ F_k[0].status = "REAL"
    /\ \E r \in Ranks :
          /\ wpc[r] = "mask"
          /\ \E c \in LocalCells(r) :
                /\ fgrid[r][c] # Amplitude(Zero, Zero)
                /\ F_k[0].grid[r][c] = Amplitude(Zero, Zero)
                /\ F_k[1].grid[r][c] = fgrid[r][c]
                /\ F_k[1].status = "FOURIER"

-----------------------------------------------------------------------------
(***************************************************************************)
(* compute_bispectrum / compute_polyspectrum: the collective calls         *)
(*                                                                         *)
(* Every worker runs the routine on its own: it goes through the shells    *)
(* and the tuples with its own loop variables and holds its own part of    *)
(* the real cells.  An MPI_Allreduce or a distributed fftw_c2r returns     *)
(* once every worker of MPI_COMM_WORLD has entered a collective call; the  *)
(* calls are matched in the order in which each worker makes them.         *)
(***************************************************************************)

\* the collective calls of one iteration of the shell loop, of the tuple loop
ShellCalls == <<"kmean", "pofk_bin", "nk", "fftw_c2r F_k", "fftw_c2r N_k">>
TupleCalls == <<"N123_current", "F123_current">>

\* the real cells worker r holds
OwnCells(r) == {x \in Cells : (x - 1) % NTasks = r}

\* the worker's part of the sum over the real cells, before the all-reduce
LocalSum(G, ik, r) ==
    SumOver([x \in OwnCells(r) |->
                ProdOver([ii \in DOMAIN ik |-> G[ik[ii]][x]], DOMAIN ik)],
            OwnCells(r))

\* the worker also leaves out the tuples its own cells hold no triangle of
SkipsTuple_Local(r, i) ==
    IF routine = "bispectrum"
    THEN \/ BiSkipOrder(DecodeLSF(i)) \/ BiNoTriangle(DecodeLSF(i))
         \/ LocalSum(N_k, DecodeLSF(i), r) = 0
    ELSE \/ ~PolyValid(DecodeMSF(i)) \/ PolyNotClosable(DecodeMSF(i))
         \/ LocalSum(N_k, DecodeMSF(i), r) = 0

\* the two tests of the tuple loop that end iteration i with "continue",
\* as worker r evaluates them
SkipsTuple(r, i) ==
    IF routine = "bispectrum"
    THEN BiSkipOrder(DecodeLSF(i)) \/ BiNoTriangle(DecodeLSF(i))
    ELSE ~PolyValid(DecodeMSF(i)) \/ PolyNotClosable(DecodeMSF(i))

\* the next iteration of the loop, the next loop after the last one
NextIteration(p) ==
    IF p.loop = "shells"
    THEN IF p.i + 1 < nbins
         THEN [loop |-> "shells", i |-> p.i + 1, call |-> 1, wait |-> FALSE]
         ELSE [loop |-> "tuples", i |-> 0, call |-> 1, wait |-> FALSE]
    ELSE IF p.i + 1 < nbins_tot
         THEN [loop |-> "tuples", i |-> p.i + 1, call |-> 1, wait |-> FALSE]
         ELSE [loop |-> "done", i |-> 0, call |-> 1, wait |-> FALSE]

CallsOf(p) == IF p.loop = "shells" THEN ShellCalls ELSE TupleCalls

\* worker r ends the iteration of a tuple with "continue"
CollSkip(r) ==
    /\ pc = "workers"
    /\ cpos[r].loop = "tuples" /\ cpos[r].call = 1 /\ ~cpos[r].wait
    /\ SkipsTuple(r, cpos[r].i)
    /\ cpos' = [cpos EXCEPT ![r] = NextIteration(cpos[r])]
    /\ UNCHANGED <<clog, polyVars, gridVars, binVars, partVars, smoothVars,
                   multVars, rsdVars, shellVars, gadVars>>

\* worker r enters its next collective call
CollEnter(r) ==
    /\ pc = "workers"
    /\ cpos[r].loop \in {"shells", "tuples"} /\ ~cpos[r].wait
    /\ (cpos[r].loop = "tuples" /\ cpos[r].call = 1) => ~SkipsTuple(r, cpos[r].i)
    /\ cpos' = [cpos EXCEPT ![r].wait = TRUE]
    /\ clog' = [clog EXCEPT ![r] =
                  Append(@, <<cpos[r].loop, cpos[r].i, CallsOf(cpos[r])[cpos[r].call]>>)]
    /\ UNCHANGED <<polyVars, gridVars, binVars, partVars, smoothVars, multVars,
                   rsdVars, shellVars, gadVars>>

\* every worker is in a collective call: the call returns on all of them
CollReturn ==
    /\ pc = "workers"
    /\ \A r \in Ranks : cpos[r].wait
    /\ cpos' = [r \in Ranks |->
                  IF cpos[r].call < Len(CallsOf(cpos[r]))
                  THEN [cpos[r] EXCEPT !.call = @ + 1, !.wait = FALSE]
                  ELSE NextIteration(cpos[r])]
    /\ UNCHANGED <<clog, polyVars, gridVars, binVars, partVars, smoothVars,
                   multVars, rsdVars, shellVars, gadVars>>

\* The shells of the collective specification: the real cells differ from
\* worker to worker
CollShellInputs == {sh \in ShellInputs : sh.p > 0 /\ sh.N[1] > 0}

InitColl ==
    /\ routine \in {"bispectrum", "polyspectrum"}
    /\ order \in (IF routine = "bispectrum" THEN {3} ELSE Orders)
    /\ nbins \in 2 .. MaxBins
    /\ kcentre \in KShapes(nbins)
    /\ \E sh \in [0 .. nbins - 1 -> CollShellInputs] :
          /\ F_k = [i \in 0 .. nbins - 1 |-> sh[i].F]
          /\ N_k = [i \in 0 .. nbins - 1 |-> sh[i].N]
          /\ pofk_bin = [i \in 0 .. nbins - 1 |-> sh[i].p]
    /\ pc = "workers" /\ idx = 0
    /\ P123 = <<>> /\ N123 = <<>> /\ evaluated = {} /\ skipped = {}
    /\ result = NoResult
    /\ grid_status = "FOURIER" /\ Nmesh = 0 /\ Ndim = 0
    /\ NTasks \in 1 .. MaxTasks
    /\ Local_nx = <<>> /\ field = "none" /\ fgrid = <<>>
    /\ cpos = [r \in Ranks |->
                 [loop |-> "shells", i |-> 0, call |-> 1, wait |-> FALSE]]
    /\ clog = [r \in Ranks |-> <<>>]
    /\ IdleBin /\ IdlePart /\ IdleSmooth /\ IdleMult /\ IdleRsd /\ IdleShell
    /\ IdleGad

NextColl ==
    \/ \E r \in Ranks : CollSkip(r)
    \/ \E r \in Ranks : CollEnter(r)
    \/ CollReturn

SpecColl == InitColl /\ [][NextColl]_vars

\* ---- C23 ----
\* C23: in compute_bispectrum and compute_polyspectrum on several workers
\* with the same binning, every worker enters the same sequence of collective
\* calls (the calls one worker has made so far are an initial part of the calls
\* of any other worker, or the other way round), and no worker waits in a
\* collective call while another worker has left the routine.
C23_SameCollectives ==
    pc = "workers" =>
        \A r1 \in Ranks : \A r2 \in Ranks :
            /\ IsPrefix(clog[r1], clog[r2]) \/ IsPrefix(clog[r2], clog[r1])
            /\ ~(cpos[r1].wait /\ cpos[r2].loop = "done")
            /\ (cpos[r1].wait /\ cpos[r2].wait) => clog[r1] = clog[r2]

\* C23 witness: two workers are through the routine; one tuple was left out
\* for its bin centres, another one was evaluated although one of the workers
\* holds none of its triangles
C23_Witness ==
    /\ pc = "workers" /\ NTasks = 2
    /\ \A r \in Ranks : cpos[r].loop = "done"
    /\ \E i \in Flat : \E j \in Flat :
          /\ SkipsTuple(0, i) /\ ~SkipsTuple(0, j)
          /\ LocalSum(N_k, DecodeMSF(i), 0) # 0
          /\ LocalSum(N_k, DecodeLSF(j), 1) = 0 /\ LocalSum(N_k, DecodeMSF(j), 1) = 0
          /\ LocalSum(N_k, DecodeLSF(j), 0) # 0 /\ LocalSum(N_k, DecodeMSF(j), 0) # 0
          /\ \E n \in DOMAIN clog[1] : clog[1][n] = <<"tuples", j, "F123_current">>
          /\ \A n \in DOMAIN clog[1] : clog[1][n][2] # i \/ clog[1][n][1] = "shells"

\* ---- C24 ----
\* what bin_up_power_spectrum returns for the grid and the binning of the
\* state: the loop of every worker from the reset object, then normalize()
BinUpReturns ==
    NormalizedOver([r \in Ranks |->
                       BinUpLoopFrom(r, 0, NmeshTotLocal(r), ResetBinning)])

\* C24: for the same Fourier grid and the same binning, and every valid line
\* of sight, Pell[0].pofk and Pell[0].kbin returned by
\* compute_power_spectrum_multipoles(grid) are pofk and kbin returned by
\* bin_up_power_spectrum, in every bin (the one holding k = 0 included).
C24_MonopoleIsBinUp ==
    (routine = "multipoles" /\ BinningConsistent) =>
        \A r \in Ranks :
            wpc[r] = "returned" =>
                \A b \in PofkBins :
                    /\ Pell[r][0].pofk[b] = NumOfRat(BinUpReturns.pofk[b])
                    /\ Pell[r][0].kbin[b] = BinUpReturns.kbin[b]

\* C24 witness: two workers have returned a monopole whose bin of k = 0 holds
\* power and modes of more than one |k|, on a grid with interior planes of the
\* packed axis and with higher moments asked for
C24_Witness ==
    /\ routine = "multipoles" /\ BinningConsistent /\ NTasks = 2 /\ nell > 1
    /\ Nmesh >= 3
    /\ \A r \in Ranks : wpc[r] = "returned"
    /\ LET b == BinOf(0)
       IN  /\ b # -1
           /\ Pell[0][0].pofk[b] # NumOfRat(Zero)
           /\ RatIsPos(Pell[0][0].kbin[b][1])
           /\ \E q \in K2s : q > 1 /\ RatIsPos(Pell[0][0].kbin[b][q])

\* ---- C25 ----
\* C25: after compute_bispectrum returns, every flat index whose B123 entry is
\* nonzero has N123 > 0 at that index, and N123 takes the same value at all
\* permutations of a bin triple.
C25_CountsFilledWithValues ==
    (routine = "bispectrum" /\ pc = "done") =>
        /\ \A i \in Flat :
              ~RatIsZero(result.P123[i]) => RatIsPos(result.N123[i])
        /\ \A i \in Flat : \A j \in Flat :
              SameBins(i, j) => result.N123[i] = result.N123[j]

\* ---- C26 ----
\* C26: in compute_power_spectrum_multipoles(grid), mu is evaluated only with
\* |k| > 0: no undefined value (0/0) is added to any Pell[ell] with ell >= 1,
\* whatever the binning range, k_min = 0 included.
C26_NoUndefinedMoment ==
    routine = "multipoles" =>
        \A r \in Ranks :
            wpc[r] \in {"allreduce", "normalize", "project", "returned"} =>
                \A ell \in Ells : \A b \in PofkBins : ~Pell[r][ell].pofk[b].nan

\* ---- C27 ----
\* the shells whose count grid holds 1 at the mode c of worker r
ShellsOf(r, c) ==
    {i \in Bins : N_k[i].grid[r][c] = Amplitude(RatOfInt(1), Zero)}

\* C27: in compute_bispectrum and compute_polyspectrum with n_b >= 2 strictly
\* increasing bin centres, the shells [klow_i, khigh_i) are contiguous and
\* pairwise disjoint with klow_0 = k[0], khigh_i = klow_(i+1) and
\* khigh_(n_b-1) = k[n_b-1]: once all shells are masked, every mode with
\* k[0] <= |k| < k[n_b-1] lies in exactly one shell, every other mode in none.
C27_ShellsPartition ==
    (routine \in {"bispectrum", "polyspectrum"} /\ pc \in {"copy", "done"}) =>
        /\ klow4(0) = 4 * kcentre[0]
        /\ khigh4(nbins - 1) = 4 * kcentre[nbins - 1]
        /\ \A i \in 0 .. nbins - 2 : khigh4(i) = klow4(i + 1)
        /\ \A i \in Bins : klow4(i) < khigh4(i)
        /\ \A r \in Ranks : \A c \in LocalCells(r) :
              Cardinality(ShellsOf(r, c)) =
                  IF /\ kcentre[0] * kcentre[0] <= Kmag2(r, c)
                     /\ Kmag2(r, c) < kcentre[nbins - 1] * kcentre[nbins - 1]
                  THEN 1 ELSE 0

\* C27 witness: all shells are masked; a mode sits exactly on an interior
\* edge and belongs to the upper shell alone, a mode at or above the last bin
\* centre belongs to none
C27_Witness ==
    /\ routine \in {"bispectrum", "polyspectrum"} /\ pc = "done" /\ nbins = 3
    /\ \E r \in Ranks : \E c \in LocalCells(r) : \E i \in 0 .. nbins - 2 :
          /\ 16 * Kmag2(r, c) = khigh4(i) * khigh4(i)
          /\ ShellsOf(r, c) = {i + 1}
    /\ \E r \in Ranks : \E c \in LocalCells(r) :
          /\ Kmag2(r, c) >= kcentre[nbins - 1] * kcentre[nbins - 1]
          /\ ShellsOf(r, c) = {}

\* ---- C28 ----
\* the average bin_up_power_spectrum gives over the modes S: |delta|^2 with
\* weight 2 on the interior planes of the packed axis and weight 1 on the
\* DC and Nyquist planes, over the sum of the weights
WeightedMeanPower(S) ==
    LET num == RatSumOfModes(LAMBDA r, c :
                                RatMul(RatOfInt(Weight(c)), CellPower(r, c)), S)
        den == SumOfModes(LAMBDA r, c : Weight(c), S)
    IN  RatDiv(num, RatOfInt(den))

\* C28: for the same Fourier grid and the same shell, the in-shell power
\* pofk[i] returned by compute_bispectrum / compute_polyspectrum is the average
\* bin_up_power_spectrum gives over that shell: weight 2 on the interior planes
\* of the packed axis, weight 1 on the DC/Nyquist planes, in the power sum and
\* in the mode count.
C28_ShellPowerIsBinUpAverage ==
    (routine \in {"bispectrum", "polyspectrum"} /\ pc = "done") =>
        \A i \in Bins :
            ShellModes(i) # {} =>
                result.pofk[i] = WeightedMeanPower(ShellModes(i))

-----------------------------------------------------------------------------
(***************************************************************************)
(* GadgetReader / GadgetWriter: the framing of the records of a file       *)
(*                                                                         *)
(* A file is its sequence of bytes.  An int is four bytes, the low byte    *)
(* first on the machine that runs the code; a file of the opposite byte    *)
(* order holds them reversed.  A buffer is its size and the bytes that a   *)
(* read has stored at its start (the bytes behind them are the zeros of    *)
(* the construction).  throw_error ends the call: by MPI_Abort, or by an   *)
(* exception that leaves the routine.  A read past the end of the file     *)
(* stores nothing and leaves the stream failed (position -1); an int that  *)
(* no read has stored keeps an indeterminate value.                        *)
(***************************************************************************)

SizeofHeader == 256
MaxBytes == 2
MaxSections == 2

\* the values an int takes that was declared and never stored to
Indeterminate == {0, MaxBytes}

Zeros(n) == [i \in 1 .. n |-> 0]

\* (char*)&v: the four bytes of the int v, low byte first
IntBytes(v) ==
    LET w == IF v >= 0 THEN v ELSE v + 2147483647 + 1
        top == IF v >= 0 THEN 0 ELSE 128
    IN  << w % 256, (w \div 256) % 256, (w \div 65536) % 256,
           (w \div 16777216) + top >>

\* the int whose four bytes are b, low byte first
BytesInt(b) ==
    b[1] + 256 * b[2] + 65536 * b[3]
        + 16777216 * (IF b[4] >= 128 THEN b[4] - 256 ELSE b[4])

\* swap_endian(v) of an int
swap_endian(v) ==
    LET b == IntBytes(v) IN BytesInt(<<b[4], b[3], b[2], b[1]>>)

\* fp.read(p, n) with the stream at pos: can all n bytes be read
Avail(p, n) == p >= 0 /\ n >= 0 /\ n <= Len(gfile) - p

\* the bytes fp.read(p, n) stores
Got(p, n) ==
    IF p < 0 \/ n <= 0 THEN <<>>
    ELSE IF n <= Len(gfile) - p THEN SubSeq(gfile, p + 1, p + n)
    ELSE SubSeq(gfile, p + 1, Len(gfile))

\* the position of the stream after fp.read(p, n)
After(p, n) == IF Avail(p, n) THEN p + n ELSE -1

\* fp.read((char*)&v, sizeof(v)) for an int v that held u
ReadInt(p, u) == IF Avail(p, 4) THEN BytesInt(Got(p, 4)) ELSE u

\* the whole buffer written between the markers, whatever bytes says
Section_WholeBuffer(buf, bytes) ==
    IntBytes(bytes) \o buf \o IntBytes(bytes)

\* fp.write((char*)&bytes, sizeof(bytes)); fp.write(buffer.data(), bytes);
\* fp.write((char*)&bytes, sizeof(bytes));
Section(buf, bytes) ==
    IntBytes(bytes) \o SubSeq(buf, 1, bytes) \o IntBytes(bytes)

\* the buffers handed to write_section
WriteBuffers == UNION {[1 .. n -> {1, 2}] : n \in 0 .. MaxBytes}

\* GadgetWriter::write_section(fp, buffer, bytes)
GadWriteSection ==
    /\ gpc = "write" /\ Len(gsent) < MaxSections
    /\ \E buf \in WriteBuffers : \E bytes \in -1 .. MaxBytes + 1 :
          LET call(e) == [op |-> "write_section", buffer |-> buf,
                          bytes |-> bytes, at |-> Len(gfile), end |-> e]
          IN  IF ~gopen
              THEN /\ gcall' = call("File is not open") /\ gpc' = "failed"
                   /\ UNCHANGED <<gfile, gsent>>
              ELSE IF bytes < 0 \/ Len(buf) < bytes      \* size_t(bytes)
              THEN /\ gcall' = call("Buffersize too small") /\ gpc' = "failed"
                   /\ UNCHANGED <<gfile, gsent>>
              ELSE /\ gfile' = gfile \o Section(buf, bytes)
                   /\ gsent' = Append(gsent, SubSeq(buf, 1, bytes))
                   /\ gcall' = call("ok")
                   /\ UNCHANGED gpc
    /\ UNCHANGED <<gpos, gopen, endian_swap, header_is_read, header_copied, gbuffer>>
    /\ UNCHANGED <<polyVars, gridVars, binVars, partVars, smoothVars, multVars,
                   rsdVars, shellVars, collVars>>

\* GadgetReader::read_section(fp, buffer), the buffer handed in being of
\* presize bytes; the first read of a file that was written opens it
GadReadSection ==
    /\ gpc \in {"write", "read"} /\ gpos >= 0
    /\ gpc = "write" => gsent # <<>>
    /\ \E presize \in 0 .. MaxBytes : \E u1 \in Indeterminate : \E u2 \in Indeterminate :
          LET raw1 == ReadInt(gpos, u1)
              pos1 == After(gpos, 4)
              bytes_start == IF endian_swap THEN swap_endian(raw1) ELSE raw1
              got == Got(pos1, bytes_start)
              pos2 == After(pos1, bytes_start)
              raw2 == ReadInt(pos2, u2)
              bytes_end == IF endian_swap THEN swap_endian(raw2) ELSE raw2
              call(e) == [op |-> "read_section", presize |-> presize,
                          at |-> gpos, end |-> e]
          IN  IF ~gopen
              THEN /\ gcall' = call("File is not open") /\ gpc' = "failed"
                   /\ UNCHANGED <<gpos, gbuffer>>
              ELSE IF presize > 0 /\ (bytes_start < 0 \/ presize < bytes_start)
              THEN /\ gcall' = call("Buffersize is too small") /\ gpc' = "failed"
                   /\ gpos' = pos1
                   /\ gbuffer' = [size |-> presize, data |-> <<>>]
              ELSE IF presize = 0 /\ bytes_start < 0
              THEN /\ gcall' = call("std::length_error") /\ gpc' = "failed"
                   /\ gpos' = pos1
                   /\ UNCHANGED gbuffer
              ELSE /\ gbuffer' = [size |-> IF presize > 0 THEN presize
                                            ELSE bytes_start,
                                  data |-> got]
                   /\ gpos' = After(pos2, 4)
                   /\ IF bytes_start # bytes_end
                      THEN /\ gcall' = call("BytesStart != ByteEnd")
                           /\ gpc' = "failed"
                      ELSE /\ gcall' = call("ok")
                           /\ gpc' = "read"
    /\ UNCHANGED <<gfile, gopen, endian_swap, header_is_read, header_copied, gsent>>
    /\ UNCHANGED <<polyVars, gridVars, binVars, partVars, smoothVars, multVars,
                   rsdVars, shellVars, collVars>>

\* GadgetReader::read_header(fp).  Bytes stored behind the end of the header
\* object leave the program undefined.
GadReadHeader ==
    /\ gpc = "read" /\ gpos = 0 /\ ~header_is_read
    /\ \E u1 \in Indeterminate : \E u2 \in Indeterminate :
          LET bytes_start == ReadInt(gpos, u1)
              pos1 == After(gpos, 4)
              got == Got(pos1, bytes_start)
              pos2 == After(pos1, bytes_start)
              bytes_end == ReadInt(pos2, u2)
              call(e) == [op |-> "read_header", at |-> gpos, end |-> e]
          IN  IF ~gopen
              THEN /\ gcall' = call("File is not open") /\ gpc' = "failed"
                   /\ UNCHANGED <<gpos, header_copied, endian_swap, header_is_read>>
              ELSE /\ header_copied' = Len(got)
                   /\ gpos' = After(pos2, 4)
                   /\ IF Len(got) > SizeofHeader
                      THEN /\ gcall' = call("undefined") /\ gpc' = "undefined"
                           /\ UNCHANGED <<endian_swap, header_is_read>>
                      ELSE IF bytes_start # bytes_end
                      THEN /\ gcall' = call("BytesStart != ByteEnd")
                           /\ gpc' = "failed"
                           /\ UNCHANGED <<endian_swap, header_is_read>>
                      ELSE IF bytes_start # SizeofHeader
                      THEN IF swap_endian(bytes_start) # SizeofHeader
                           THEN /\ gcall' = call("ByteStart != sizeof(header)")
                                /\ gpc' = "failed"
                                /\ UNCHANGED <<endian_swap, header_is_read>>
                           ELSE /\ endian_swap' = TRUE /\ header_is_read' = TRUE
                                /\ gcall' = call("ok") /\ UNCHANGED gpc
                      ELSE /\ header_is_read' = TRUE
                           /\ gcall' = call("ok")
                           /\ UNCHANGED <<endian_swap, gpc>>
    /\ UNCHANGED <<gfile, gopen, gbuffer, gsent>>
    /\ UNCHANGED <<polyVars, gridVars, binVars, partVars, smoothVars, multVars,
                   rsdVars, shellVars, collVars>>

\* the four bytes of a marker in a file of the given byte order
Marker(v, swapped) ==
    LET b == IntBytes(v) IN IF swapped THEN <<b[4], b[3], b[2], b[1]>> ELSE b

\* Files found on disk: a header record whose markers hold the size of the
\* header or a corrupt length, followed by one section, in the byte order of
\* the machine or in the opposite one
HeaderLengths == {SizeofHeader, SizeofHeader + 8, 8}
DiskFiles ==
    { Marker(l, sw) \o Zeros(SizeofHeader) \o Marker(t, sw)
          \o Marker(2, sw) \o <<1, 2>> \o Marker(s, sw) :
        l \in HeaderLengths, t \in HeaderLengths, sw \in BOOLEAN, s \in {1, 2} }

InitGad ==
    /\ \/ gpc = "write" /\ gfile = <<>>
       \/ gpc = "read" /\ gfile \in DiskFiles
    /\ gopen \in BOOLEAN
    /\ gpos = 0 /\ endian_swap = FALSE /\ header_is_read = FALSE
    /\ header_copied = 0
    /\ gbuffer = [size |-> 0, data |-> <<>>]
    /\ gsent = <<>>
    /\ gcall = [op |-> "none", at |-> 0, end |-> "ok"]
    /\ IdleTuples("gadget") /\ IdleGrid /\ IdleBin /\ IdlePart /\ IdleSmooth
    /\ IdleMult /\ IdleRsd /\ IdleShell /\ IdleColl

NextGad == GadWriteSection \/ GadReadSection \/ GadReadHeader

SpecGad == InitGad /\ [][NextGad]_vars

\* ---- C29 ----
\* C29: GadgetReader::read_header never copies more than sizeof(header) bytes
\* into the header object, whatever leading record length the file holds (the
\* reversed length of a file of the opposite byte order and corrupt lengths
\* included), and header_is_read is true only after the length was validated.
C29_HeaderNotOverrun ==
    routine = "gadget" =>
        /\ header_copied <= SizeofHeader
        /\ header_is_read =>
              \/ BytesInt(Got(0, 4)) = SizeofHeader
              \/ swap_endian(BytesInt(Got(0, 4))) = SizeofHeader

\* ---- C30 ----
\* the offset of the k-th section of a file that write_section has written
SectionStart(k) ==
    SumOver([j \in 1 .. k - 1 |-> 8 + Len(gsent[j])], 1 .. k - 1)

\* the leading marker at the read position, as the reader takes it
LeadHere ==
    IF endian_swap THEN swap_endian(BytesInt(Got(gpos, 4)))
    ELSE BytesInt(Got(gpos, 4))

\* C30: a section written by write_section(fp, buffer, bytes) with
\* 0 <= bytes <= buffer.size() is read back by read_section into an empty
\* buffer as exactly those bytes, the buffer resized to bytes (the reader
\* being in the byte order of the writer); read_section fails when the leading
\* and the trailing marker differ and when a non-empty buffer is smaller than
\* the leading length; write_section writes nothing when buffer.size() < bytes.
C30_FramingRoundTrips ==
    [][routine = "gadget" =>
          /\ (gcall'.op = "write_section" /\ gopen) =>
                IF 0 <= gcall'.bytes /\ gcall'.bytes <= Len(gcall'.buffer)
                THEN /\ gcall'.end = "ok"
                     /\ Len(gfile') = Len(gfile) + 8 + gcall'.bytes
                ELSE gcall'.end # "ok" /\ gfile' = gfile
          /\ (gcall'.op = "read_section" /\ gopen /\ gsent # <<>>
                 /\ gcall'.presize = 0) =>
                \A k \in DOMAIN gsent :
                    gpos = SectionStart(k) =>
                        /\ gcall'.end = "ok"
                        /\ gbuffer' = [size |-> Len(gsent[k]), data |-> gsent[k]]
                        /\ gpos' = SectionStart(k + 1)
          /\ (gcall'.op = "read_section" /\ gopen /\ Avail(gpos, 4)
                 /\ LeadHere >= 0 /\ Avail(gpos + 4, LeadHere)
                 /\ Avail(gpos + 4 + LeadHere, 4)
                 /\ Got(gpos + 4 + LeadHere, 4) # Got(gpos, 4)) =>
                gcall'.end # "ok" /\ gpc' = "failed"
          /\ (gcall'.op = "read_section" /\ gopen /\ Avail(gpos, 4)
                 /\ gcall'.presize > 0 /\ gcall'.presize < LeadHere) =>
                gcall'.end = "Buffersize is too small" /\ gpc' = "failed"]_vars

\* C30 witness: two sections were written, the first one empty; the second,
\* of one byte, has just been read back into an empty buffer, which brought
\* the reader to the end of the file
C30_Witness ==
    /\ routine = "gadget" /\ Len(gsent) = 2
    /\ gsent[1] = <<>> /\ Len(gsent[2]) = 1
    /\ gcall.op = "read_section" /\ gcall.presize = 0 /\ gcall.end = "ok"
    /\ gcall.at = SectionStart(2)
    /\ gbuffer = [size |-> 1, data |-> gsent[2]]
    /\ gpos = Len(gfile)

=============================================================================
